---- MODULE Spec2Model ----
(***************************************************************************)
(* Salesforce audit scripts: the field-usage estimator of                 *)
(* scripts/search_fieldUsage.py and the programs around it.                *)
(*                                                                         *)
(* Spec: one run of get_field_usage_batch on its dataframe path (pandas    *)
(* available) against a record store: the count query, the schema lookup,  *)
(* the choice of analysis mode, cursor pagination, the offset-based        *)
(* small-batch fallback and the single (sampling or whole-dataset) query.  *)
(* SpecAnalyze: one run of analyze_fields, which counts the records and    *)
(* then either calls get_field_usage_batch or loops over the attributes    *)
(* with get_field_usage (schema lookup, COUNT query, sampling query).      *)
(* Every external call goes through run_sfdx_command, which never raises   *)
(* and returns None on failure; a failure is a nondeterministic choice at  *)
(* every call.  The store may gain or lose records between the count query *)
(* and the data queries.                                                   *)
(*                                                                         *)
(* The store holds records with Ids 1..N in Id order.  The value of every  *)
(* field of record i is given by a repeating pattern of record kinds, so   *)
(* that populations of the program's real sizes (50,000 records, pages of  *)
(* 2,000 and 500) are represented without enumerating the records.         *)
(* usage_pct is kept in hundredths of a percent (round(x, 2) * 100).       *)
(*                                                                         *)
(* SpecTwice: two calls of get_field_usage_batch in a row against the same *)
(* store with the same responses.  SpecFair: Spec with weak fairness.      *)
(* SpecFuzzy: one call of fuzzy_match of the search modules.  SpecFlags:   *)
(* the presence flags of search_fields_summary,                            *)
(* search_flows_multi_terms_summary and MTAAudit.check_flow_references.    *)
(* SpecTool: one call of execute_tool_call of revops_ai_specialist.        *)
(* SpecRelay: one conversation of process_conversation_with_openai.        *)
(* SpecAudit: one run of auditdatacore.main.                               *)
(***************************************************************************)
EXTENDS Integers, Sequences, FiniteSets, TLC

\* ------------------------------------------------------------------ bounds
\* largest number of external calls that fail in one run
MaxFailures == 4
\* largest number of records inserted or deleted between the count query
\* and the data queries
MaxDrift == 1

\* ------------------------------------------------------- program constants
DEFAULT_BATCH_SIZE == 5000
\* total_record_count > 50000 is a "very large dataset"
VERY_LARGE_DATASET == 50000
\* actual_batch_size = min(batch_size, 2000)
CURSOR_BATCH_CAP == 2000
\* process_with_small_batches(..., batch_size=500)
SMALL_BATCH_SIZE == 500
\* get_field_usage(..., sample_size=5000)
DEFAULT_SAMPLE_SIZE == 5000

\* ------------------------------------------------------------------ inputs
\* store sizes at the time of the count query
Sizes == {0, 3, 1200, 2001, VERY_LARGE_DATASET, VERY_LARGE_DATASET + 1}
\* batch_size arguments
BatchSizes == {1000, DEFAULT_BATCH_SIZE, 60000}

Min(a, b) == IF a <= b THEN a ELSE b

\* ----------------------------------------------------------- python values
\* A value is None, a scalar, or a dict of sub-components (compound field).
\* A scalar or sub-component is one of the tokens below.
PyNone  == [kind |-> "none",   val |-> "None", comps |-> << >>]
PyStr   == [kind |-> "scalar", val |-> "x",    comps |-> << >>]
PyEmpty == [kind |-> "scalar", val |-> "",     comps |-> << >>]
PyDict(cs) == [kind |-> "dict", val |-> "dict", comps |-> cs]

\* bool(v) for a sub-component token: None, 0, False and "" are falsy
Truthy(tok) == tok \notin {"None", "0", "False", ""}

\* ------------------------------------------------------------------ schema
\* result['result']['fields'] of the describe call
Schema == << [name |-> "Website",        type |-> "url"],
             [name |-> "BillingAddress", type |-> "address"],
             [name |-> "Geo__c",         type |-> "location"] >>

SchemaNames == {Schema[i].name : i \in 1..Len(Schema)}

\* str.lower() on the names that occur
Lower(s) ==
  CASE s = "Website"        -> "website"
    [] s = "BillingAddress" -> "billingaddress"
    [] s = "Geo__c"         -> "geo__c"
    [] s = "Bogus"          -> "bogus"
    [] OTHER                -> s

\* field_names arguments
Requests == { << "Website", "BillingAddress" >>,
              << "website", "Bogus", "Geo__c" >>,
              << "Bogus" >> }

\* ----------------------------------------------------------------- records
RecFull  == [Website |-> PyStr,   BillingAddress |-> PyDict(<< "x", "None" >>),
             Geo__c  |-> PyDict(<< "x", "x" >>)]
RecNull  == [Website |-> PyNone,  BillingAddress |-> PyNone,
             Geo__c  |-> PyNone]
RecEmpty == [Website |-> PyEmpty, BillingAddress |-> PyDict(<< "None", "None" >>),
             Geo__c  |-> PyDict(<< "None", "None" >>)]
RecFalsy == [Website |-> PyStr,   BillingAddress |-> PyDict(<< "0", "None" >>),
             Geo__c  |-> PyNone]

\* repeating record patterns: record i is pattern[((i - 1) % Len) + 1]
Patterns == { << RecFull, RecNull, RecEmpty >>,
              << RecFull, RecFull, RecFull >>,
              << RecFalsy, RecNull, RecFull >> }

RecordAt(pat, i) == pat[((i - 1) % Len(pat)) + 1]

FieldValue(rec, f) ==
  CASE f = "Website"        -> rec.Website
    [] f = "BillingAddress" -> rec.BillingAddress
    [] f = "Geo__c"         -> rec.Geo__c

TypeOf(f) == Schema[CHOOSE i \in 1..Len(Schema) : Schema[i].name = f].type

\* a test that also rejects the empty string
NotNa_NonEmpty(v) == v.kind # "none" /\ v.val # ""

\* pandas Series.notna(): everything but None/NaN, the empty string included
NotNa(v) == v.kind # "none"

\* isinstance(v, dict) and any(x for x in v.values() if x is not None)
AnyComponent(v) ==
  /\ v.kind = "dict"
  /\ \E k \in 1..Len(v.comps) :
       v.comps[k] # "None" /\ Truthy(v.comps[k])

\* the per-record test of the dataframe paths, by declared type
CountsAsNonNull(type, v) ==
  IF type = "address" THEN AnyComponent(v) ELSE NotNa(v)

\* number of records with Ids in 1..n that count as non-null for field f
PrefixCount(pat, f, n) ==
  LET P    == Len(pat)
      hit(k) == IF CountsAsNonNull(TypeOf(f), FieldValue(RecordAt(pat, k), f)) THEN 1 ELSE 0
      full == Cardinality({k \in 1..P : hit(k) = 1})
      part == Cardinality({k \in 1..(n % P) : hit(k) = 1})
  IN (n \div P) * full + part

\* a page is the Id interval <<lo, hi>>; it is empty when hi < lo
PageLen(pg) == IF pg[2] >= pg[1] THEN pg[2] - pg[1] + 1 ELSE 0

\* df[field].notna().sum(), or the iterrows loop, over one page
PageCount(pat, f, pg) ==
  IF PageLen(pg) = 0 THEN 0
  ELSE PrefixCount(pat, f, pg[2]) - PrefixCount(pat, f, pg[1] - 1)

\* round(x, 2) of x = 100 * num / den, in hundredths: round half to even
RoundHalfEven(num, den) ==
  LET q == num \div den
      r == num % den
  IN IF 2 * r < den THEN q
     ELSE IF 2 * r > den THEN q + 1
     ELSE IF q % 2 = 0 THEN q ELSE q + 1

\* round((non_null_count / n) * 100, 2), in hundredths of a percent
UsagePct(non_null_count, n) ==
  IF n = 0 THEN 0 ELSE RoundHalfEven(10000 * non_null_count, n)

\* (usage_pct / 100) * total_record_count rounded down, usage_pct not yet
\* rounded: the exact quotient
Extrapolate(non_null_count, n, total_record_count) ==
  (non_null_count * total_record_count) \div n

\* int() of the product rounded to nearest instead of truncated
Truncations_Nearest(non_null_count, n, total_record_count) ==
  { (2 * non_null_count * total_record_count + n) \div (2 * n) }

\* the estimate rounded up, written "int(x) + 1"
Truncations_PlusOne(non_null_count, n, total_record_count) ==
  { Extrapolate(non_null_count, n, total_record_count) + 1 }

\* int((usage_pct / 100) * total_record_count) as the float operations can
\* give it: the exact quotient, or one less when the exact product is a
\* whole number and the float product falls just below it (1 of 3 in a
\* population of 3 gives 0.9999999999999999, hence 0); a fraction of 1 is
\* exact
Truncations(non_null_count, n, total_record_count) ==
  LET q == Extrapolate(non_null_count, n, total_record_count)
  IN IF (non_null_count * total_record_count) % n = 0
          /\ q > 0 /\ non_null_count # n
     THEN {q - 1, q} ELSE {q}

\* ------------------------------------------------------------ record store
\* SELECT ... ORDER BY Id LIMIT limit
FirstPage(n, limit) == << 1, Min(limit, n) >>

\* the cursor filter written "WHERE Id >= 'last_id'"
CursorQuery_Inclusive(n, last_id, limit) == << last_id, Min(last_id + limit - 1, n) >>

\* SELECT ... WHERE Id > 'last_id' ORDER BY Id LIMIT limit
CursorQuery(n, last_id, limit) == << last_id + 1, Min(last_id + limit, n) >>

\* SELECT ... LIMIT limit OFFSET offset
OffsetQuery(n, offset, limit) == << offset + 1, Min(offset + limit, n) >>

\* SELECT ... [LIMIT limit]; the LIMIT clause is present when limited
PlainQuery(n, limited, limit) == << 1, IF limited THEN Min(limit, n) ELSE n >>

\* ------------------------------------------------------------- validation
\* the names compared as written, without lower()
SchemaIndex_CaseSensitive(field_name) ==
  LET hits == {i \in 1..Len(Schema) : Schema[i].name = field_name}
  IN IF hits = {} THEN 0 ELSE CHOOSE i \in hits : \A j \in hits : i <= j

\* index of the first schema field whose lower-cased name equals the
\* lower-cased requested name, 0 when there is none
SchemaIndex(field_name) ==
  LET hits == {i \in 1..Len(Schema) : Lower(Schema[i].name) = Lower(field_name)}
  IN IF hits = {} THEN 0 ELSE CHOOSE i \in hits : \A j \in hits : i <= j

InSeq(x, sq) == \E k \in 1..Len(sq) : sq[k] = x

RECURSIVE ValidFieldsFrom(_, _, _)
ValidFieldsFrom(field_names, k, acc) ==
  IF k > Len(field_names) THEN acc
  ELSE LET i == SchemaIndex(field_names[k])
       IN IF i = 0 \/ InSeq(Schema[i].name, acc)
          THEN ValidFieldsFrom(field_names, k + 1, acc)
          ELSE ValidFieldsFrom(field_names, k + 1, Append(acc, Schema[i].name))

\* validate_fields_on_object with a successful describe call: the keys of
\* valid_fields in insertion order, under the schema's spelling
validate_fields_on_object(field_names) == ValidFieldsFrom(field_names, 1, << >>)

\* the requested names validated although the describe call failed
ValidFieldsAfter_Unchecked(ok, field_names) == validate_fields_on_object(field_names)

\* valid_fields as get_field_usage_batch receives it: validate_fields_on_object
\* returns {} when the describe call fails ("Could not retrieve metadata")
ValidFieldsAfter(ok, field_names) ==
  IF ok THEN validate_fields_on_object(field_names) ELSE << >>

\* ----------------------------------------------------------------- results
\* keys lists the optional keys the dictionary carries; a key that is not
\* listed is absent and its slot holds FALSE or 0
ZeroResult(field_name) ==
  [field |-> field_name, total_records |-> 0, non_null_records |-> 0,
   usage_pct |-> 0, keys |-> {}, is_estimated |-> FALSE,
   sample_size |-> 0, records_analyzed |-> 0]

\* is_estimated written "processed_records <= total_record_count"
PagedResult_EstimatedWhenEqual(field_name, non_null_count, processed, total_record_count) ==
  [field |-> field_name, total_records |-> total_record_count,
   non_null_records |-> non_null_count,
   usage_pct |-> UsagePct(non_null_count, processed),
   keys |-> {"is_estimated", "records_analyzed"},
   is_estimated |-> (processed <= total_record_count),
   sample_size |-> 0, records_analyzed |-> processed]

\* the result dictionaries of both pagination strategies
PagedResult(field_name, non_null_count, processed, total_record_count) ==
  [field |-> field_name, total_records |-> total_record_count,
   non_null_records |-> non_null_count,
   usage_pct |-> UsagePct(non_null_count, processed),
   keys |-> {"is_estimated", "records_analyzed"},
   is_estimated |-> (processed < total_record_count),
   sample_size |-> 0, records_analyzed |-> processed]

PagedResults(valid, counts, processed, total_record_count) ==
  [k \in 1..Len(valid) |->
     PagedResult(valid[k], counts[valid[k]], processed, total_record_count)]

\* the result dictionaries of the single query
SingleResult(field_name, non_null_count, n, total_record_count, sampling, size, estimated_non_null) ==
  IF sampling
  THEN [field |-> field_name, total_records |-> total_record_count,
        non_null_records |-> estimated_non_null,
        usage_pct |-> UsagePct(non_null_count, n),
        keys |-> {"is_estimated", "sample_size"}, is_estimated |-> TRUE,
        sample_size |-> size, records_analyzed |-> 0]
  ELSE [field |-> field_name, total_records |-> total_record_count,
        non_null_records |-> non_null_count,
        usage_pct |-> UsagePct(non_null_count, n),
        keys |-> {"is_estimated"}, is_estimated |-> FALSE,
        sample_size |-> 0, records_analyzed |-> 0]

NoCounts == [f \in SchemaNames |-> 0]

\* the counters left as the previous call set them
StartCounts_Kept(previous) == previous

\* field_counts = {field: 0 for field in valid_fields}
StartCounts(previous) == NoCounts

\* field_counts after one page has been added
AddPage(pat, valid, counts, pg) ==
  [f \in SchemaNames |->
     IF InSeq(f, valid) THEN counts[f] + PageCount(pat, f, pg) ELSE counts[f]]

\* ------------------------------------------------------------------- state
VARIABLES
  storeAtCount,        \* records in the store when the count query runs
  store,               \* records in the store when the data queries run
  pattern,             \* the record pattern of the store
  field_names,         \* argument
  batch_size,          \* argument
  full_requested,      \* argument use_full_dataset as passed by the caller
  pc,                  \* position in get_field_usage_batch
  total_record_count,  \* local
  valid_fields,        \* local: keys of valid_fields, in order
  use_full_dataset,    \* local, after the very-large downgrade
  use_sampling,        \* local
  field_counts,        \* local of the running pagination strategy
  processed_records,   \* local of the running pagination strategy
  batch_num,           \* local of the running pagination strategy
  records,             \* cursor pagination: the page fetched last
  results,             \* the returned list, once pc = "done"
  path,                \* which code produced the returned list
  counted,             \* history: the page counted last by a pagination strategy
  queries,             \* history: number of count, schema and data queries
  failed,              \* history: the kinds of external calls that failed
  failures,            \* history: number of failed external calls
  fetched,             \* history: records returned by the single query
  emptyPage,           \* history: an offset query returned no records
  has_pandas,          \* module global HAS_PANDAS
  field_index,         \* analyze_fields: position of the for loop over field_names
  field_log,           \* history: what get_field_usage did for each attribute
  run,                 \* 0: a single call; 1, 2: first and second of two calls
  outcomes,            \* the responses of the store to the first of two calls
  first_results,       \* what the first of two calls returned
  module,              \* fuzzy_match: the module whose definition is called
  search_term,         \* fuzzy_match: argument
  text,                \* fuzzy_match: argument
  threshold,           \* fuzzy_match: argument, in hundredths
  matched,             \* fuzzy_match: what the call did
  search_terms,        \* presence flags: the keywords
  scanned,             \* presence flags: name or label of every item of the org
  env,                 \* presence flags: which producer runs and what fails
  flags,               \* presence flags: the returned dictionary
  flag_pc,             \* presence flags: position of the producer
  tool_arguments,      \* execute_tool_call: what tool_call.function.arguments holds
  tool_known,          \* execute_tool_call: function_name in available_functions
  tool_function,       \* execute_tool_call: what the called function does
  tool_result,         \* execute_tool_call: what the call did
  max_turns,           \* relay: argument
  turn_count,          \* relay: local
  messages,            \* relay: the message list, role and content length
  total_chars,         \* relay: local
  requests,            \* relay history: requests made to the chat API
  pruned,              \* relay history: the pruning done by the last iteration
  relay_result,        \* relay: "running", or how the function ended
  script_outcome,      \* auditdatacore: what importing each script does
  attempted,           \* auditdatacore history: the scripts imported so far
  summary,             \* auditdatacore: the list "results" of main
  audit_state          \* auditdatacore: position of main

inputs == << storeAtCount, store, pattern, field_names, batch_size, full_requested >>
locals == << total_record_count, valid_fields, use_full_dataset, use_sampling,
             field_counts, processed_records, batch_num, records >>
history == << counted, queries, failed, failures, fetched, emptyPage >>
\* the state of the per-attribute loop of analyze_fields
fieldvars == << has_pandas, field_index, field_log >>
\* two calls in a row: which call runs and what the first one returned
rerunvars == << run, first_results >>
\* a call of fuzzy_match
matchvars == << module, search_term, text, threshold, matched >>
\* the variables of the other programs of the repository
\* a producer of presence flags
flagvars == << search_terms, scanned, env, flags, flag_pc >>
\* a call of execute_tool_call
toolvars == << tool_arguments, tool_known, tool_function, tool_result >>
\* a conversation of process_conversation_with_openai
relayvars == << max_turns, turn_count, messages, total_chars, requests, pruned,
               relay_result >>
\* a run of auditdatacore.main
auditvars == << script_outcome, attempted, summary, audit_state >>
others == << matchvars, flagvars, toolvars, relayvars, auditvars >>
beyond == << rerunvars, others >>
vars == << inputs, locals, history, fieldvars, pc, results, path, outcomes, beyond >>

NoQueries == [count |-> 0, schema |-> 0, data |-> 0]

\* the store, the arguments and the locals before the first statement
Fresh ==
  /\ storeAtCount \in Sizes
  /\ \E d \in (0 - MaxDrift)..MaxDrift :
       /\ storeAtCount + d >= 0
       /\ store = storeAtCount + d
  /\ pattern \in Patterns
  /\ field_names \in Requests
  /\ batch_size \in BatchSizes
  /\ full_requested \in BOOLEAN
  /\ total_record_count = 0
  /\ valid_fields = << >>
  /\ use_full_dataset = full_requested
  /\ use_sampling = FALSE
  /\ field_counts = NoCounts
  /\ processed_records = 0
  /\ batch_num = 0
  /\ records = << 1, 0 >>
  /\ results = << >>
  /\ path = "running"
  /\ counted = << 1, 0 >>
  /\ queries = NoQueries
  /\ failed = {}
  /\ failures = 0
  /\ fetched = 0
  /\ emptyPage = FALSE
  /\ field_index = 0
  /\ field_log = << >>
  /\ outcomes = << >>
  /\ first_results = << >>

\* no call of fuzzy_match is made
NoMatch ==
  /\ module = "fields"
  /\ search_term = << >>
  /\ text = [kind |-> "none", chars |-> << >>]
  /\ threshold = 0
  /\ matched = "idle"

\* no presence flag is computed
NoFlags ==
  /\ search_terms = << >>
  /\ scanned = << >>
  /\ env = [kind |-> "none"]
  /\ flags = << >>
  /\ flag_pc = "idle"

\* no tool call is executed
NoToolCall ==
  /\ tool_arguments = "object"
  /\ tool_known = FALSE
  /\ tool_function = [kind |-> "none", n |-> 0, a |-> 0, b |-> 0]
  /\ tool_result = [outcome |-> "idle"]

\* no conversation is held
NoRelay ==
  /\ max_turns = 0
  /\ turn_count = 0
  /\ messages = << >>
  /\ total_chars = 0
  /\ requests = 0
  /\ pruned = "no"
  /\ relay_result = "idle"

\* auditdatacore does not run
NoAudit ==
  /\ script_outcome = << >>
  /\ attempted = << >>
  /\ summary = << >>
  /\ audit_state = "idle"

\* the other programs of the repository do not run
NothingElseRuns == NoMatch /\ NoFlags /\ NoToolCall /\ NoRelay /\ NoAudit

\* a call of get_field_usage_batch with total_record_count = None, pandas
\* available
Init ==
  /\ NothingElseRuns
  /\ Fresh
  /\ pc = "start"
  /\ has_pandas = TRUE
  /\ run = 0

\* the external calls made so far by the running call
Calls == queries.count + queries.schema + queries.data

\* one external call: it succeeds, or it fails while failures remain; the
\* second of two calls gets the responses the first one got
CallOutcomes ==
  IF run = 2 /\ Calls < Len(outcomes) THEN {outcomes[Calls + 1]}
  ELSE IF failures < MaxFailures THEN BOOLEAN ELSE {TRUE}

Failure(ok, kind) ==
  /\ failed' = IF ok THEN failed ELSE failed \cup {kind}
  /\ failures' = IF ok THEN failures ELSE failures + 1
  /\ outcomes' = IF run = 1 THEN Append(outcomes, ok) ELSE outcomes

\* get_total_record_count: the count, or 0 when the query fails
get_total_record_count(ok) == IF ok THEN storeAtCount ELSE 0

\* the zero-population test written "if total_record_count is None"
NoRecords_Never(total) == total < 0

\* "if total_record_count == 0": 0% for all fields, no further query
NoRecords(total) == total = 0

\* get_field_usage_batch up to the zero-population return
CountRecords ==
  /\ pc = "start"
  /\ \E ok \in CallOutcomes :
       /\ Failure(ok, "count")
       /\ total_record_count' = get_total_record_count(ok)
       /\ queries' = [queries EXCEPT !.count = @ + 1]
       /\ IF NoRecords(total_record_count')
          THEN /\ results' = [k \in 1..Len(field_names) |-> ZeroResult(field_names[k])]
               /\ path' = "zero"
               /\ pc' = "done"
          ELSE /\ UNCHANGED << results, path >>
               /\ pc' = "validate"
  /\ UNCHANGED << beyond, inputs, valid_fields, use_full_dataset, use_sampling,
                  field_counts, processed_records, batch_num, records,
                  counted, fetched, emptyPage, fieldvars >>

\* the ceiling test written "total_record_count >= 50000"
Downgrade_AtCeiling(requested, total) ==
  IF total >= VERY_LARGE_DATASET /\ requested THEN FALSE ELSE requested

\* use_full_dataset after "if very_large_dataset and use_full_dataset"
Downgrade(requested, total) ==
  IF total > VERY_LARGE_DATASET /\ requested THEN FALSE ELSE requested

\* use_sampling written without "not use_full_dataset"
UseSampling_IgnoringFlag(full, total, size) == total > size

\* use_sampling = (not use_full_dataset) and (total_record_count > batch_size)
UseSampling(full, total, size) == (~full) /\ total > size

\* "if not use_sampling and total_record_count > batch_size": paginate
UsePagination(sampling, total, size) == (~sampling) /\ total > size

\* schema lookup, validation and the choice of the analysis mode
ValidateAndChoose ==
  /\ pc = "validate"
  /\ \E ok \in CallOutcomes :
       /\ Failure(ok, "schema")
       /\ queries' = [queries EXCEPT !.schema = @ + 1]
       /\ valid_fields' = ValidFieldsAfter(ok, field_names)
       /\ IF valid_fields' = << >>
          THEN /\ results' = << >>
               /\ path' = "none"
               /\ pc' = "done"
               /\ UNCHANGED << use_full_dataset, use_sampling >>
          ELSE /\ use_full_dataset' = Downgrade(use_full_dataset, total_record_count)
               /\ use_sampling' = UseSampling(use_full_dataset', total_record_count, batch_size)
               /\ pc' = IF UsePagination(use_sampling', total_record_count, batch_size)
                        THEN "cursor" ELSE "single"
               /\ UNCHANGED << results, path >>
  /\ UNCHANGED << beyond, inputs, total_record_count, field_counts, processed_records,
                  batch_num, records, counted, fetched, emptyPage, fieldvars >>

\* actual_batch_size = min(batch_size, 2000)
actual_batch_size == Min(batch_size, CURSOR_BATCH_CAP)

\* the except branch going straight to the single query
OnCursorException_Single == "single"

\* where get_field_usage_batch continues when process_with_cursor_pagination
\* raises: "Falling back to smaller batch sizes..."
OnCursorException == "small"

\* the first query of process_with_cursor_pagination; when it fails the
\* function raises and get_field_usage_batch starts process_with_small_batches
CursorStart ==
  /\ pc = "cursor"
  /\ \E ok \in CallOutcomes :
       /\ Failure(ok, "cursor_first")
       /\ queries' = [queries EXCEPT !.data = @ + 1]
       /\ IF ok
          THEN /\ records' = FirstPage(store, actual_batch_size)
               /\ pc' = "cursor_loop"
          ELSE /\ UNCHANGED records
               /\ pc' = OnCursorException
       /\ batch_num' = 1
       /\ field_counts' = StartCounts(field_counts)
       /\ processed_records' = 0
       /\ counted' = << 1, 0 >>
  /\ UNCHANGED << beyond, inputs, total_record_count, valid_fields, use_full_dataset,
                  use_sampling, results, path, fetched, emptyPage, fieldvars >>

\* "if processed_records >= total_record_count or len(records) < actual_batch_size"
CursorFinished(processed, total, len, size) == processed >= total \/ len < size

\* one iteration of the while loop of process_with_cursor_pagination: the
\* current page is counted and the next one is fetched; the results are
\* built when the loop is left
CursorBatch ==
  /\ pc = "cursor_loop"
  /\ IF PageLen(records) = 0
     THEN /\ results' = PagedResults(valid_fields, field_counts,
                                     processed_records, total_record_count)
          /\ path' = "cursor"
          /\ pc' = "done"
          /\ UNCHANGED << field_counts, processed_records, batch_num, records,
                          counted, queries, failed, failures, outcomes >>
     ELSE /\ field_counts' = AddPage(pattern, valid_fields, field_counts, records)
          /\ processed_records' = processed_records + PageLen(records)
          /\ counted' = records
          /\ IF CursorFinished(processed_records', total_record_count,
                               PageLen(records), actual_batch_size)
             THEN /\ results' = PagedResults(valid_fields, field_counts',
                                             processed_records', total_record_count)
                  /\ path' = "cursor"
                  /\ pc' = "done"
                  /\ UNCHANGED << batch_num, records, queries, failed, failures, outcomes >>
             ELSE \E ok \in CallOutcomes :
                    /\ Failure(ok, "cursor_next")
                    /\ queries' = [queries EXCEPT !.data = @ + 1]
                    /\ IF ok
                       THEN /\ records' = CursorQuery(store, records[2], actual_batch_size)
                            /\ batch_num' = batch_num + 1
                            /\ pc' = "cursor_loop"
                            /\ UNCHANGED << results, path >>
                       ELSE /\ results' = PagedResults(valid_fields, field_counts',
                                                       processed_records',
                                                       total_record_count)
                            /\ path' = "cursor"
                            /\ pc' = "done"
                            /\ UNCHANGED << batch_num, records >>
  /\ UNCHANGED << beyond, inputs, total_record_count, valid_fields, use_full_dataset,
                  use_sampling, fetched, emptyPage, fieldvars >>

\* the number of batches written "total_record_count // batch_size + 1"
num_batches_PlusOne == total_record_count \div SMALL_BATCH_SIZE + 1

\* num_batches = (total_record_count + batch_size - 1) // batch_size
num_batches == (total_record_count + SMALL_BATCH_SIZE - 1) \div SMALL_BATCH_SIZE

\* the offset written "batch_num * batch_size"
SmallOffset_OffByOne(num) == num * SMALL_BATCH_SIZE

\* offset = (batch_num - 1) * batch_size
SmallOffset(num) == (num - 1) * SMALL_BATCH_SIZE

\* the failed query handled with "break"
ContinueAfterFailure_Break == FALSE

\* what the for loop does after a failed query: TRUE continues with the
\* next batch, FALSE leaves the loop
ContinueAfterFailure == TRUE

\* one iteration of the for loop of process_with_small_batches; the results
\* are built when the loop is left.  No query failure makes the function
\* raise, so the "Falling back to sampling method..." handler of
\* get_field_usage_batch is never entered from here.
SmallBatch ==
  /\ pc = "small"
  /\ \E ok \in CallOutcomes :
       LET pg    == OffsetQuery(store, SmallOffset(batch_num), SMALL_BATCH_SIZE)
           break == IF ok THEN PageLen(pg) = 0 ELSE ~ContinueAfterFailure
           count == ok /\ PageLen(pg) > 0
           last  == break \/ batch_num = num_batches
       IN /\ Failure(ok, "small")
          /\ queries' = [queries EXCEPT !.data = @ + 1]
          /\ emptyPage' = (emptyPage \/ (ok /\ PageLen(pg) = 0))
          /\ field_counts' = IF count
                             THEN AddPage(pattern, valid_fields, field_counts, pg)
                             ELSE field_counts
          /\ processed_records' = IF count
                                  THEN processed_records + PageLen(pg)
                                  ELSE processed_records
          /\ counted' = IF count THEN pg ELSE counted
          /\ batch_num' = IF last THEN batch_num ELSE batch_num + 1
          /\ IF last
             THEN /\ results' = PagedResults(valid_fields, field_counts',
                                             processed_records', total_record_count)
                  /\ path' = "small"
                  /\ pc' = "done"
             ELSE /\ pc' = "small"
                  /\ UNCHANGED << results, path >>
  /\ UNCHANGED << beyond, inputs, total_record_count, valid_fields, use_full_dataset,
                  use_sampling, records, fetched, fieldvars >>

\* sample_size = min(batch_size, total_record_count)
sample_size == Min(batch_size, total_record_count)

\* "if use_sampling or sample_size < total_record_count": the query has a LIMIT
HasLimit == use_sampling \/ sample_size < total_record_count

\* the single query for sampling or for a dataset that fits in one query
SingleQuery ==
  /\ pc = "single"
  /\ \E ok \in CallOutcomes :
       LET pg == PlainQuery(store, HasLimit, sample_size)
           n  == PageLen(pg)
       IN /\ Failure(ok, "single")
          /\ queries' = [queries EXCEPT !.data = @ + 1]
          /\ fetched' = IF ok THEN n ELSE 0
          /\ counted' = IF ok /\ n > 0 THEN pg ELSE counted
          /\ IF ok /\ n > 0
             THEN \E below \in [1..Len(valid_fields) -> {0, 1}] :
                    LET non_null_count(k) == PageCount(pattern, valid_fields[k], pg)
                        est(k) == IF use_sampling
                                  THEN Extrapolate(non_null_count(k), n,
                                                   total_record_count) - below[k]
                                  ELSE 0
                    IN /\ \A k \in 1..Len(valid_fields) :
                            IF use_sampling
                            THEN est(k) \in Truncations(non_null_count(k), n,
                                                        total_record_count)
                            ELSE below[k] = 0
                       /\ results' =
                            [k \in 1..Len(valid_fields) |->
                               SingleResult(valid_fields[k], non_null_count(k), n,
                                            total_record_count, use_sampling,
                                            sample_size, est(k))]
             ELSE results' = << >>
          /\ path' = IF ok THEN "single" ELSE "none"
          /\ pc' = "done"
  /\ UNCHANGED << beyond, inputs, total_record_count, valid_fields, use_full_dataset,
                  use_sampling, field_counts, processed_records, batch_num,
                  records, emptyPage, fieldvars >>

Next ==
  \/ CountRecords
  \/ ValidateAndChoose
  \/ CursorStart
  \/ CursorBatch
  \/ SmallBatch
  \/ SingleQuery

Spec == Init /\ [][Next]_vars

\* the program is sequential and every external call returns: a call that
\* can take its next step takes it
SpecFair == Spec /\ WF_vars(Next)

\* ---------------------------------------------------------- analyze_fields
\* analyze_fields counts the records once, then either calls
\* get_field_usage_batch with that count or calls get_field_usage for one
\* attribute after the other.

\* the per-record test of get_field_usage: "field_value is not None", and
\* for a dict "any(v for v in field_value.values() if v is not None)"
SampleCountsAsNonNull(v) ==
  /\ v.kind # "none"
  /\ v.kind = "dict" => AnyComponent(v)

\* the name under which the store knows the requested field; SOQL names
\* are case-insensitive and the records of the response carry the field
\* under the name written in the query
StoreName(field_name) == Schema[SchemaIndex(field_name)].name

\* totalSize of SELECT COUNT() FROM object WHERE field != null over a store
\* of n records
CountWhereNotNull(n, field_name) ==
  LET P    == Len(pattern)
      hit(k) == IF NotNa(FieldValue(RecordAt(pattern, k), StoreName(field_name)))
                THEN 1 ELSE 0
      full == Cardinality({k \in 1..P : hit(k) = 1})
      part == Cardinality({k \in 1..(n % P) : hit(k) = 1})
  IN (n \div P) * full + part

\* non_null_count of the loop over the n records of the sampling response
SampleCount(n, field_name) ==
  LET P    == Len(pattern)
      hit(k) == IF SampleCountsAsNonNull(FieldValue(RecordAt(pattern, k),
                                                    StoreName(field_name)))
                THEN 1 ELSE 0
      full == Cardinality({k \in 1..P : hit(k) = 1})
      part == Cardinality({k \in 1..(n % P) : hit(k) = 1})
  IN (n \div P) * full + part

\* field_type in nonqueryable_field_types
Nonqueryable(type) ==
  type \in {"address", "location", "richtext", "base64", "encrypted"}

\* the dictionary returned after the sampling query of get_field_usage;
\* sample_pct = (non_null_count / sample_size) * 100 divides by the
\* requested sample size, not by the number of records returned
SampledUsage(field_name, non_null_count, size, total, estimated_non_null) ==
  [field |-> field_name, total_records |-> total,
   non_null_records |-> estimated_non_null,
   usage_pct |-> UsagePct(non_null_count, size),
   keys |-> {"is_estimated", "sample_size"}, is_estimated |-> TRUE,
   sample_size |-> size, records_analyzed |-> 0]

\* the dictionary returned after the COUNT query of get_field_usage
CountedUsage(field_name, non_null_count, total) ==
  [field |-> field_name, total_records |-> total,
   non_null_records |-> non_null_count,
   usage_pct |-> UsagePct(non_null_count, total),
   keys |-> {"is_estimated"}, is_estimated |-> FALSE,
   sample_size |-> 0, records_analyzed |-> 0]

\* one entry of field_log: how the call for one attribute ended, the records
\* its last data query returned, the records counted as non-null and the
\* data queries it issued
LogEntry(outcome, examined, non_null_count, data_queries) ==
  [outcome |-> outcome, examined |-> examined,
   non_null |-> non_null_count, data_queries |-> data_queries]

\* the batch method is used "if HAS_PANDAS and len(field_names) > 1"
UseBatch(pandas, names) == pandas /\ Len(names) > 1

\* a call of analyze_fields
InitAnalyze ==
  /\ NothingElseRuns
  /\ run = 0
  /\ Fresh
  /\ pc = "analyze"
  /\ has_pandas \in BOOLEAN

\* analyze_fields up to the choice between get_field_usage_batch, which is
\* given the count and starts at its zero-population test, and the loop
AnalyzeFields ==
  /\ pc = "analyze"
  /\ \E ok \in CallOutcomes :
       /\ Failure(ok, "count")
       /\ total_record_count' = get_total_record_count(ok)
       /\ queries' = [queries EXCEPT !.count = @ + 1]
       /\ IF UseBatch(has_pandas, field_names)
          THEN /\ field_index' = 0
               /\ IF NoRecords(total_record_count')
                  THEN /\ results' = [k \in 1..Len(field_names) |->
                                        ZeroResult(field_names[k])]
                       /\ path' = "zero"
                       /\ pc' = "done"
                  ELSE /\ UNCHANGED << results, path >>
                       /\ pc' = "validate"
          ELSE /\ field_index' = 1
               /\ pc' = "get_field_usage"
               /\ UNCHANGED << results, path >>
  /\ UNCHANGED << beyond, inputs, valid_fields, use_full_dataset, use_sampling,
                  field_counts, processed_records, batch_num, records,
                  counted, fetched, emptyPage, has_pandas, field_log >>

\* get_field_usage returns: "if result: results.append(result)" and the
\* loop goes to the next attribute, or analyze_fields returns the list
NextField(returned, result, entry) ==
  /\ results' = IF returned THEN Append(results, result) ELSE results
  /\ field_log' = Append(field_log, entry)
  /\ IF field_index = Len(field_names)
     THEN /\ pc' = "done"
          /\ path' = "fields"
          /\ field_index' = field_index
     ELSE /\ pc' = "get_field_usage"
          /\ path' = path
          /\ field_index' = field_index + 1

\* get_field_usage up to the choice of the query: the zero-population
\* return, the describe call and the lookup of the field
GetFieldUsage ==
  /\ pc = "get_field_usage"
  /\ LET field_name == field_names[field_index]
     IN IF NoRecords(total_record_count)
        THEN /\ NextField(TRUE, ZeroResult(field_name), LogEntry("zero", 0, 0, 0))
             /\ UNCHANGED << queries, failed, failures, outcomes >>
        ELSE \E ok \in CallOutcomes :
               /\ Failure(ok, "field_schema")
               /\ queries' = [queries EXCEPT !.schema = @ + 1]
               /\ IF ~ok
                  THEN NextField(FALSE, ZeroResult(field_name),
                                 LogEntry("no_metadata", 0, 0, 0))
                  ELSE IF SchemaIndex(field_name) = 0
                  THEN NextField(FALSE, ZeroResult(field_name),
                                 LogEntry("no_field", 0, 0, 0))
                  ELSE /\ pc' = IF Nonqueryable(Schema[SchemaIndex(field_name)].type)
                                THEN "sample" ELSE "count_query"
                       /\ UNCHANGED << results, path, field_index, field_log >>
  /\ UNCHANGED << beyond, inputs, locals, counted, fetched, emptyPage, has_pandas >>

\* the COUNT query of get_field_usage; when it fails the function falls
\* back to the sampling query
CountQuery ==
  /\ pc = "count_query"
  /\ \E ok \in CallOutcomes :
       LET field_name == field_names[field_index]
           non_null_count == CountWhereNotNull(store, field_name)
       IN /\ Failure(ok, "field_count")
          /\ queries' = [queries EXCEPT !.data = @ + 1]
          /\ IF ok
             THEN NextField(TRUE,
                            CountedUsage(field_name, non_null_count, total_record_count),
                            LogEntry("count", store, non_null_count, 1))
             ELSE /\ pc' = "sample_fallback"
                  /\ UNCHANGED << results, path, field_index, field_log >>
  /\ UNCHANGED << beyond, inputs, locals, counted, fetched, emptyPage, has_pandas >>

\* the sampling query of get_field_usage, first choice for the nonqueryable
\* types and fallback of a failed COUNT query
SampleQuery ==
  /\ pc \in {"sample", "sample_fallback"}
  /\ \E ok \in CallOutcomes :
       LET field_name == field_names[field_index]
           size == Min(DEFAULT_SAMPLE_SIZE, total_record_count)
           pg == PlainQuery(store, TRUE, size)
           non_null_count == SampleCount(PageLen(pg), field_name)
           issued == IF pc = "sample" THEN 1 ELSE 2
       IN /\ Failure(ok, "field_sample")
          /\ queries' = [queries EXCEPT !.data = @ + 1]
          /\ IF ok
             THEN \E est \in Truncations(non_null_count, size, total_record_count) :
                    NextField(TRUE,
                              SampledUsage(field_name, non_null_count, size,
                                           total_record_count, est),
                              LogEntry("sample", PageLen(pg), non_null_count, issued))
             ELSE NextField(FALSE, ZeroResult(field_name),
                            LogEntry("no_data", 0, 0, issued))
  /\ UNCHANGED << beyond, inputs, locals, counted, fetched, emptyPage, has_pandas >>

NextAnalyze ==
  \/ AnalyzeFields
  \/ ValidateAndChoose
  \/ CursorStart
  \/ CursorBatch
  \/ SmallBatch
  \/ SingleQuery
  \/ GetFieldUsage
  \/ CountQuery
  \/ SampleQuery

SpecAnalyze == InitAnalyze /\ [][NextAnalyze]_vars

\* ------------------------------------------------- two calls in a row
\* get_field_usage_batch is called, returns, and is called again with the
\* same arguments against the same store, which answers the second call as
\* it answered the first.  The function keeps nothing between calls: the
\* locals of the second call hold no value of its own until the code
\* assigns them, modelled by leaving in them what the first call left.

\* populations small enough to record every response of the store
RerunSizes == {3, 1200, 2001}

InitTwice ==
  /\ NothingElseRuns
  /\ Fresh
  /\ storeAtCount \in RerunSizes
  /\ pc = "start"
  /\ has_pandas = TRUE
  /\ run = 1

\* the first call has returned; the second call is made
Rerun ==
  /\ pc = "done"
  /\ run = 1
  /\ run' = 2
  /\ first_results' = results
  /\ pc' = "start"
  /\ results' = << >>
  /\ path' = "running"
  /\ counted' = << 1, 0 >>
  /\ queries' = NoQueries
  /\ failed' = {}
  /\ failures' = 0
  /\ fetched' = 0
  /\ emptyPage' = FALSE
  /\ use_full_dataset' = full_requested
  /\ UNCHANGED << inputs, total_record_count, valid_fields, use_sampling,
                  field_counts, processed_records, batch_num, records,
                  fieldvars, outcomes, others >>

NextTwice ==
  \/ CountRecords
  \/ ValidateAndChoose
  \/ CursorStart
  \/ CursorBatch
  \/ SmallBatch
  \/ SingleQuery
  \/ Rerun

SpecTwice == InitTwice /\ [][NextTwice]_vars

\* ------------------------------------------------------------ fuzzy_match
\* fuzzy_match(search_term, text, threshold) is defined in search_fields,
\* search_apex, search_flows, search_objects, search_reports and
\* search_packages.  Strings are sequences of characters; a threshold is
\* kept in hundredths.

\* longest search term and longest text
MaxTermLen == 2
MaxTextLen == 3

Alphabet == {"a", "b", "A"}
StringsUpTo(n) == UNION {[1..k -> Alphabet] : k \in 0..n}

\* DEFAULT_SIMILARITY_THRESHOLD = 0.6
DEFAULT_SIMILARITY_THRESHOLD == 60
Thresholds == {0, 1, DEFAULT_SIMILARITY_THRESHOLD, 67, 100, 150}

Modules == {"fields", "apex", "flows", "objects", "reports", "packages"}

\* the text argument: None or a string
NoneText == [kind |-> "none", chars |-> << >>]
StrText(s) == [kind |-> "str", chars |-> s]
Texts == {NoneText} \cup {StrText(s) : s \in StringsUpTo(MaxTextLen)}

\* str.lower()
LowerChar(c) == IF c = "A" THEN "a" ELSE c
str_lower(s) == [k \in 1..Len(s) |-> LowerChar(s[k])]

\* "text in search_term", the operands of the substring test exchanged
Contains_Swapped(needle, hay) ==
  \E i \in 0..(Len(needle) - Len(hay)) :
     \A k \in 1..Len(hay) : needle[i + k] = hay[k]

\* "needle in hay" for two strings
Contains(needle, hay) ==
  \E i \in 0..(Len(hay) - Len(needle)) :
     \A k \in 1..Len(needle) : hay[i + k] = needle[k]

\* length of the common run of a[i..ahi] and b[j..bhi] that starts at i, j
RECURSIVE RunLength(_, _, _, _, _, _)
RunLength(a, b, i, j, ahi, bhi) ==
  IF i > ahi \/ j > bhi THEN 0
  ELSE IF a[i] # b[j] THEN 0
  ELSE 1 + RunLength(a, b, i + 1, j + 1, ahi, bhi)

\* SequenceMatcher.find_longest_match without junk: the longest matching
\* block of a[alo..ahi] and b[blo..bhi]; of the longest ones the one that
\* starts earliest in a, and of those the one that starts earliest in b
find_longest_match(a, b, alo, ahi, blo, bhi) ==
  LET starts == (alo..ahi) \X (blo..bhi)
      size(st) == RunLength(a, b, st[1], st[2], ahi, bhi)
      best == CHOOSE st \in starts :
                \A other \in starts :
                   \/ size(other) < size(st)
                   \/ /\ size(other) = size(st)
                      /\ \/ st[1] < other[1]
                         \/ st[1] = other[1] /\ st[2] <= other[2]
  IN [i |-> best[1], j |-> best[2], size |-> size(best)]

\* SequenceMatcher.get_matching_blocks: the total size of the blocks found
\* by taking the longest match and recursing to its left and to its right
RECURSIVE MatchingSize(_, _, _, _, _, _)
MatchingSize(a, b, alo, ahi, blo, bhi) ==
  IF alo > ahi \/ blo > bhi THEN 0
  ELSE LET m == find_longest_match(a, b, alo, ahi, blo, bhi)
       IN IF m.size = 0 THEN 0
          ELSE m.size
               + MatchingSize(a, b, alo, m.i - 1, blo, m.j - 1)
               + MatchingSize(a, b, m.i + m.size, ahi, m.j + m.size, bhi)

\* the comparison written "similarity > threshold"
RatioAtLeast_Strict(a, b, t) ==
  IF Len(a) + Len(b) = 0 THEN 100 > t
  ELSE 200 * MatchingSize(a, b, 1, Len(a), 1, Len(b)) > t * (Len(a) + Len(b))

\* SequenceMatcher(None, a, b).ratio() >= t / 100, where ratio() is
\* 2.0 * matches / (len(a) + len(b)), and 1.0 for two empty strings
RatioAtLeast(a, b, t) ==
  IF Len(a) + Len(b) = 0 THEN 100 >= t
  ELSE 200 * MatchingSize(a, b, 1, Len(a), 1, Len(b)) >= t * (Len(a) + Len(b))

\* the "None check" at the head of the function, present in every module
\* but search_flows
HasNoneCheck(m) == m # "flows"

\* what a call of fuzzy_match does: it returns True or False, or text.lower()
\* raises AttributeError
fuzzy_match(m, term, txt, t) ==
  IF txt.kind = "none"
  THEN IF HasNoneCheck(m) THEN "False" ELSE "raised"
  ELSE IF Contains(str_lower(term), str_lower(txt.chars)) THEN "True"
  ELSE IF RatioAtLeast(str_lower(term), str_lower(txt.chars), t) THEN "True"
  ELSE "False"

\* the estimator does not run
NoEstimate ==
  /\ storeAtCount = 0
  /\ store = 0
  /\ pattern = << RecFull, RecFull, RecFull >>
  /\ field_names = << "Bogus" >>
  /\ batch_size = DEFAULT_BATCH_SIZE
  /\ full_requested = FALSE
  /\ total_record_count = 0
  /\ valid_fields = << >>
  /\ use_full_dataset = FALSE
  /\ use_sampling = FALSE
  /\ field_counts = NoCounts
  /\ processed_records = 0
  /\ batch_num = 0
  /\ records = << 1, 0 >>
  /\ results = << >>
  /\ path = "running"
  /\ counted = << 1, 0 >>
  /\ queries = NoQueries
  /\ failed = {}
  /\ failures = 0
  /\ fetched = 0
  /\ emptyPage = FALSE
  /\ has_pandas = TRUE
  /\ field_index = 0
  /\ field_log = << >>
  /\ outcomes = << >>
  /\ first_results = << >>
  /\ run = 0
  /\ pc = "idle"

\* the variables of the estimator
estimate == << inputs, locals, history, fieldvars, pc, results, path, outcomes,
               rerunvars >>

InitFuzzy ==
  /\ NoEstimate
  /\ NoAudit
  /\ NoFlags
  /\ NoToolCall
  /\ NoRelay
  /\ module \in Modules
  /\ search_term \in StringsUpTo(MaxTermLen)
  /\ text \in Texts
  /\ threshold \in Thresholds
  /\ matched = "called"

FuzzyMatch ==
  /\ matched = "called"
  /\ matched' = fuzzy_match(module, search_term, text, threshold)
  /\ UNCHANGED << estimate, flagvars, toolvars, relayvars, auditvars, module, search_term,
                  text, threshold >>

NextFuzzy == FuzzyMatch

SpecFuzzy == InitFuzzy /\ [][NextFuzzy]_vars

\* ---------------------------------------------------------- presence flags
\* search_fields_summary, search_flows_multi_terms_summary and
\* MTAAudit.check_flow_references report one boolean per keyword.  The org
\* holds a list of items (the fields of an object, the flows); an item has a
\* name or label that is a string, None, or missing from the record.

\* largest number of items in the org
MaxItems == 2

MissingText == [kind |-> "missing", chars |-> << >>]
Labels == {MissingText, NoneText, StrText(<< >>), StrText(<< "A" >>),
           StrText(<< "b", "a" >>), StrText(<< "a", "b", "b" >>)}
ItemLists == UNION {[1..n -> Labels] : n \in 0..MaxItems}

KeywordLists == { << <<"a">> >>, << <<"b", "b">> >>,
                  << <<"a">>, <<"b">> >>, << <<"A", "b">>, <<"b">> >>,
                  << <<"b", "a">>, <<"b", "a">> >> }

\* objects = two object names
NumObjects == 2

\* search_fields_summary: whether the describe call of each object succeeds
EnvFields == {[kind |-> "fields", describe |-> d] : d \in [1..NumObjects -> BOOLEAN]}

\* search_flows_multi_terms: sfdx installed and authorized, the Tooling API
\* connection, the Tooling API query (a 200 response, no working version,
\* or requests.get raises), the CLI query of the fallback
ApiOutcomes == {"ok", "unavailable", "raises"}
EnvFlows ==
  {[kind |-> "flows", sfdx |-> s, connection |-> c, api |-> a, cli |-> l] :
     s \in BOOLEAN, c \in BOOLEAN, a \in ApiOutcomes, l \in BOOLEAN}

\* check_flow_references: search_flows.py exists, the environment of the
\* subprocess, and what check_flow_references_fallback meets
FallbackOutcomes == {"unavailable", "names", "backup"}
EnvMta ==
  {[kind |-> "mta", script |-> x, sfdx |-> s, connection |-> c, api |-> a,
    cli |-> l, fallback |-> f] :
     x \in BOOLEAN, s \in BOOLEAN, c \in BOOLEAN, a \in ApiOutcomes,
     l \in BOOLEAN, f \in FallbackOutcomes}

\* flow['MasterLabel'] when 'MasterLabel' in flow
HasLabel(item) == item.kind # "missing"

\* field.get('name', '')
GetOrEmpty(item) == IF item.kind = "missing" THEN StrText(<< >>) ELSE item

\* search_fields_in_object: name_match or label_match or desc_match, for a
\* field record that carries a name and neither label nor description
FieldMatches(term, field, t) ==
  \/ fuzzy_match("fields", term, GetOrEmpty(field), t) = "True"
  \/ fuzzy_match("fields", term, StrText(<< >>), t) = "True"

\* the fields of get_object_fields that match: all of them are scanned, or
\* none when the describe call failed
MatchingFields(term, fields, ok, t) ==
  {i \in 1..Len(fields) : ok /\ FieldMatches(term, fields[i], t)}

\* summary_results[key] = obj in obj_results and len(obj_results[obj]) > 0
FieldFlag(term, fields, ok, t) == MatchingFields(term, fields, ok, t) # {}

\* the scan "for flow in all_flows" of search_flows raises when fuzzy_match
\* raises
FlowMatches(term, flow, t) ==
  HasLabel(flow) /\ fuzzy_match("flows", term, flow, t) = "True"
FlowRaises(term, flow, t) ==
  HasLabel(flow) /\ fuzzy_match("flows", term, flow, t) = "raised"
ScanRaises(terms, flows, t) ==
  \E k \in 1..Len(terms) : \E i \in 1..Len(flows) : FlowRaises(terms[k], flows[i], t)
FlowCounts(terms, flows, t) ==
  [k \in 1..Len(terms) |->
     Cardinality({i \in 1..Len(flows) : FlowMatches(terms[k], flows[i], t)})]
NoFlows(terms) == [k \in 1..Len(terms) |-> 0]

\* search_flows_multi_terms after check_sfdx_installed: the number of
\* matching flows of every term, and whether the lines "Found N flows
\* matching 'term'" were printed.  A scan raises at its first term, before
\* any such line.
search_flows_multi_terms(terms, e, flows, t) ==
  LET scan == IF ScanRaises(terms, flows, t)
              THEN [counts |-> NoFlows(terms), printed |-> FALSE, scanned |-> FALSE]
              ELSE [counts |-> FlowCounts(terms, flows, t), printed |-> TRUE,
                    scanned |-> TRUE]
      none == [counts |-> NoFlows(terms), printed |-> FALSE, scanned |-> FALSE]
      cli  == IF e.cli THEN scan ELSE none
  IN IF ~e.connection THEN none
     ELSE IF e.api = "unavailable" THEN none
     ELSE IF e.api = "raises" THEN cli
     ELSE IF ScanRaises(terms, flows, t) THEN cli
     ELSE scan

\* the keywords for which the output of search_flows.py holds the line
\* "Found 0 flows matching 'kw'": main prints such lines only through
\* search_flows_multi_terms, which it calls when the argument has a comma
ZeroLines(keywords, e, flows, t) ==
  IF Len(keywords) < 2 THEN {}
  ELSE LET r == search_flows_multi_terms(keywords, e, flows, t)
       IN {k \in 1..Len(keywords) : r.printed /\ r.counts[k] = 0}

\* results[f"Flow_{kw}"] = match_line not in output
FlagFromOutput(k, zero_lines) == k \notin zero_lines

\* check_flow_references_fallback: nothing could be retrieved; or the
\* keyword is a substring of a DeveloperName; or the backup approach found
\* a flow-related object and sets every flag
FallbackFlag(term, e, flows) ==
  CASE e.fallback = "unavailable" -> FALSE
    [] e.fallback = "names" ->
         \E i \in 1..Len(flows) :
            /\ flows[i].kind = "str"
            /\ flows[i].chars # << >>
            /\ Contains(str_lower(term), str_lower(flows[i].chars))
    [] e.fallback = "backup" -> TRUE

InitFlags ==
  /\ NoEstimate
  /\ NoAudit
  /\ NoMatch
  /\ NoToolCall
  /\ NoRelay
  /\ search_terms \in KeywordLists
  /\ scanned \in ItemLists
  /\ env \in EnvFields \cup EnvFlows \cup EnvMta
  /\ flags = << >>
  /\ flag_pc = "called"

\* search_fields_summary(objects, search_terms): every object holds the
\* scanned fields
SearchFieldsSummary ==
  /\ flag_pc = "called"
  /\ env.kind = "fields"
  /\ flags' = [key \in (1..Len(search_terms)) \X (1..NumObjects) |->
                 FieldFlag(search_terms[key[1]], scanned, env.describe[key[2]],
                           DEFAULT_SIMILARITY_THRESHOLD)]
  /\ flag_pc' = "done"
  /\ UNCHANGED << estimate, matchvars, toolvars, relayvars, auditvars, search_terms,
                  scanned, env >>

\* search_flows_multi_terms_summary(search_terms); check_sfdx_installed
\* ends the process when sfdx is missing or no org is authorized
SearchFlowsSummary ==
  /\ flag_pc = "called"
  /\ env.kind = "flows"
  /\ IF ~env.sfdx
     THEN /\ flag_pc' = "exited"
          /\ flags' = flags
     ELSE /\ flag_pc' = "done"
          /\ flags' = [key \in (1..Len(search_terms)) \X {0} |->
                         search_flows_multi_terms(search_terms, env, scanned,
                           DEFAULT_SIMILARITY_THRESHOLD).counts[key[1]] > 0]
  /\ UNCHANGED << estimate, matchvars, toolvars, relayvars, auditvars, search_terms,
                  scanned, env >>

\* check_flow_references(keywords): search_flows.py is run as a subprocess
\* and its output is searched for "Found 0 flows matching"; a missing
\* script or a non-zero return code goes to check_flow_references_fallback
CheckFlowReferences ==
  /\ flag_pc = "called"
  /\ env.kind = "mta"
  /\ flags' = [key \in (1..Len(search_terms)) \X {0} |->
                 IF ~env.script \/ ~env.sfdx
                 THEN FallbackFlag(search_terms[key[1]], env, scanned)
                 ELSE FlagFromOutput(key[1],
                        ZeroLines(search_terms, env, scanned,
                                  DEFAULT_SIMILARITY_THRESHOLD))]
  /\ flag_pc' = "done"
  /\ UNCHANGED << estimate, matchvars, toolvars, relayvars, auditvars, search_terms,
                  scanned, env >>

NextFlags ==
  \/ SearchFieldsSummary
  \/ SearchFlowsSummary
  \/ CheckFlowReferences

SpecFlags == InitFlags /\ [][NextFlags]_vars

\* -------------------------------------------------------- execute_tool_call
\* execute_tool_call(tool_call, available_functions) of revops_ai_specialist
\* parses the arguments, looks the function up, calls it and turns its
\* result into the string handed back to the chat API.  Strings are
\* represented by their lengths.

\* MAX_RESPONSE_SIZE = 40000
MAX_RESPONSE_SIZE == 40000
\* "len(result) > 30" and "result[:30]"
MAX_LIST_ITEMS == 30
\* the slice json_result[:MAX_RESPONSE_SIZE-100]
SLICE_MARGIN == 100
\* len("\n\n... [truncated due to size]")
MARKER_LEN == 29
\* len("Function executed successfully but returned no data.")
PLACEHOLDER_LEN == 52
\* len(function_name)
NAME_LEN == 13

\* decimal digits of a natural number below 1,000,000
Digits(n) ==
  IF n < 10 THEN 1 ELSE IF n < 100 THEN 2 ELSE IF n < 1000 THEN 3
  ELSE IF n < 10000 THEN 4 ELSE IF n < 100000 THEN 5 ELSE 6

\* what the called function does.  It returns a list of n strings whose
\* JSON form has a characters each, a dict of n keys of a characters with
\* values whose repr and JSON form have b characters, a string of a
\* characters, another object whose str() has a characters, or None; or it
\* raises an Exception whose message has a characters; or it ends the
\* process with sys.exit (check_sfdx_installed, main and parse_args of the
\* search modules are among the loaded functions)
Behaviour(k, n, a, b) == [kind |-> k, n |-> n, a |-> a, b |-> b]
Behaviours ==
  {Behaviour("list", n, a, 0) : n \in {0, 1, MAX_LIST_ITEMS, MAX_LIST_ITEMS + 1, 99},
                                a \in {3, 1330, 2000}}
  \cup {Behaviour("dict", n, 10, b) : n \in {0, 1, 1000, 5000},
                                      b \in {4, 24, 39985, 39990}}
  \cup {Behaviour("str", 0, a, 0) :
          a \in {0, MAX_RESPONSE_SIZE - SLICE_MARGIN, MAX_RESPONSE_SIZE,
                 MAX_RESPONSE_SIZE + 1, 100000}}
  \cup {Behaviour("other", 0, a, 0) : a \in {1, MAX_RESPONSE_SIZE + 1}}
  \cup {Behaviour("none", 0, 0, 0)}
  \cup {Behaviour("raises", 0, a, 0) : a \in {0, 20}}
  \cup {Behaviour("exits", 0, 0, 0)}

\* tool_call.function.arguments: not JSON, a JSON object, or another JSON
\* value
ArgumentKinds == {"invalid_json", "object", "non_object"}

\* len(json.dumps(result, indent=2)) for a list of n strings
ListJsonLen(n, a) == IF n = 0 THEN 2 ELSE 2 + n * (a + 4)

\* len(json.dumps(truncated_result, indent=2)) for the first 30 items
TruncatedListLen(n, a) == 346 + 2 * Digits(n) + MAX_LIST_ITEMS * a

\* len(str(result)) for a dict
DictStrLen(n, a, b) == IF n = 0 THEN 2 ELSE 2 + n * (a + 4 + b) + (n - 1) * 2

\* len(json.dumps(result, indent=2)) for a dict
DictJsonLen(n, a, b) == IF n = 0 THEN 2 ELSE 4 + n * (a + 6 + b) + (n - 1) * 2

\* len(json.dumps(truncated_result, indent=2)) for the keys of a dict
TruncatedDictLen(n, a, b) == 174 + Digits(DictStrLen(n, a, b)) + n * (a + 8)

\* a returned string: its length, whether it carries a truncation marker,
\* whether it is an error text, whether the function was invoked, whether
\* the function's result was shortened
ReturnedText(len, marker, error, invoked, shortened) ==
  [outcome |-> "returned", len |-> len, marker |-> marker, error |-> error,
   invoked |-> invoked, shortened |-> shortened]

\* the exception leaves execute_tool_call
Raised(invoked) ==
  [outcome |-> "raised", len |-> 0, marker |-> FALSE, error |-> FALSE,
   invoked |-> invoked, shortened |-> FALSE]

\* "if len(text) > MAX_RESPONSE_SIZE: return text[:MAX_RESPONSE_SIZE-100] +
\* marker", else the text
Sliced(len) ==
  IF len > MAX_RESPONSE_SIZE
  THEN ReturnedText(MAX_RESPONSE_SIZE - SLICE_MARGIN + MARKER_LEN, TRUE, FALSE, TRUE, TRUE)
  ELSE ReturnedText(len, FALSE, FALSE, TRUE, FALSE)

\* "except Exception as e" catches an Exception and not SystemExit
CaughtByExcept(kind) == kind = "raises"

\* the function is called with **function_args and its result is converted
ConvertResult(args, f) ==
  IF args = "non_object"
  THEN \* function(**function_args) raises TypeError before the call
       ReturnedText(29 + NAME_LEN + 40, FALSE, TRUE, FALSE, FALSE)
  ELSE CASE f.kind = "list" ->
              IF f.n > MAX_LIST_ITEMS
              THEN ReturnedText(TruncatedListLen(f.n, f.a), TRUE, FALSE, TRUE, TRUE)
              ELSE Sliced(ListJsonLen(f.n, f.a))
         [] f.kind = "dict" ->
              IF DictStrLen(f.n, f.a, f.b) > MAX_RESPONSE_SIZE
              THEN ReturnedText(TruncatedDictLen(f.n, f.a, f.b), TRUE, FALSE, TRUE, TRUE)
              ELSE Sliced(DictJsonLen(f.n, f.a, f.b))
         [] f.kind = "none" -> ReturnedText(PLACEHOLDER_LEN, FALSE, FALSE, TRUE, FALSE)
         [] f.kind \in {"str", "other"} -> Sliced(f.a)
         [] OTHER ->
              IF CaughtByExcept(f.kind)
              THEN ReturnedText(29 + NAME_LEN + f.a, FALSE, TRUE, TRUE, FALSE)
              ELSE Raised(TRUE)

execute_tool_call(args, known, f) ==
  IF args = "invalid_json"
  THEN ReturnedText(49 + NAME_LEN, FALSE, TRUE, FALSE, FALSE)
  ELSE IF ~known
  THEN ReturnedText(29 + NAME_LEN, FALSE, TRUE, FALSE, FALSE)
  ELSE ConvertResult(args, f)

InitTool ==
  /\ NoEstimate
  /\ NoAudit
  /\ NoMatch
  /\ NoFlags
  /\ NoRelay
  /\ tool_arguments \in ArgumentKinds
  /\ tool_known \in BOOLEAN
  /\ tool_function \in Behaviours
  /\ tool_result = [outcome |-> "called"]

ExecuteToolCall ==
  /\ tool_result.outcome = "called"
  /\ tool_result' = execute_tool_call(tool_arguments, tool_known, tool_function)
  /\ UNCHANGED << estimate, matchvars, flagvars, relayvars, auditvars, tool_arguments,
                  tool_known, tool_function >>

NextTool == ExecuteToolCall

SpecTool == InitTool /\ [][NextTool]_vars

\* ------------------------------------------ process_conversation_with_openai
\* The relay sends the message list to the chat API, executes the tool
\* calls of the answer with execute_tool_call, appends their results and
\* asks again, at most max_turns times.  A message is its role and the
\* length of its content.

\* largest max_turns and largest number of tool calls in one answer
MaxTurns == 3
MaxToolCalls == 2

\* "if total_chars > 300000": prune older messages
PRUNE_THRESHOLD == 300000
\* recent_messages = messages[-10:]
RECENT_WINDOW == 10
\* recent_messages[-8:]
RECENT_KEPT == 8
\* "if len(messages) > 3" in the handler of a context-length error
MIN_TO_PRUNE == 3

Message(role, len) == [role |-> role, len |-> len]

\* lengths of the system prompt and of the user query
SYSTEM_LEN == 2000
UserLens == {100, 270000}

\* what a tool call gives: a short or a long result of execute_tool_call,
\* or the called function ends the process with sys.exit
ToolOutcomes == {"short", "long", "exits"}
ToolLen(o) == IF o = "long" THEN MAX_RESPONSE_SIZE ELSE 100
ToolCallLists == UNION {[1..n -> ToolOutcomes] : n \in 1..MaxToolCalls}

\* lengths of assistant_message.content
ContentLens == {0, 500}

\* the slice seq[-n:]
LastN(sq, n) == SubSeq(sq, IF Len(sq) > n THEN Len(sq) - n + 1 ELSE 1, Len(sq))

RECURSIVE SumLen(_)
\* sum(len(str(m.get("content", ""))) for m in messages)
SumLen(sq) == IF sq = << >> THEN 0 ELSE Head(sq).len + SumLen(Tail(sq))

\* messages = [system_prompt, user_prompt] + messages[-10:][-8:]
PruneBySize(msgs) ==
  << msgs[1], msgs[2] >> \o LastN(LastN(msgs, RECENT_WINDOW), RECENT_KEPT)

\* messages = [system_prompt, user_prompt] + [messages[-1]]
PruneOnError(msgs) == << msgs[1], msgs[2], msgs[Len(msgs)] >>

\* the tool calls before the first one whose function ends the process
RECURSIVE Executed(_)
Executed(calls) ==
  IF calls = << >> THEN << >>
  ELSE IF Head(calls) = "exits" THEN << >>
  ELSE << Head(calls) >> \o Executed(Tail(calls))

ToolMessages(calls) == [k \in 1..Len(calls) |-> Message("tool", ToolLen(calls[k]))]

InitRelay ==
  /\ NoEstimate
  /\ NoAudit
  /\ NoMatch
  /\ NoFlags
  /\ NoToolCall
  /\ max_turns \in 1..MaxTurns
  /\ turn_count = 0
  /\ \E u \in UserLens : messages = << Message("system", SYSTEM_LEN), Message("user", u) >>
  /\ total_chars = SumLen(messages)
  /\ requests = 0
  /\ pruned = "no"
  /\ relay_result = "running"

\* "while turn_count < max_turns: turn_count += 1" and the request
Request ==
  /\ relay_result = "running"
  /\ turn_count < max_turns
  /\ turn_count' = turn_count + 1
  /\ requests' = requests + 1

\* the answer has no tool call: its text, or "No response from assistant."
RelayFinal ==
  /\ Request
  /\ \E c \in ContentLens :
       /\ messages' = Append(messages, Message("assistant", c))
       /\ total_chars' = total_chars + c
  /\ pruned' = "no"
  /\ relay_result' = "final"
  /\ UNCHANGED << estimate, matchvars, flagvars, toolvars, auditvars, max_turns >>

\* the answer requests tool calls: each is executed and its result appended,
\* then the list is pruned when it has grown over the threshold
RelayTools ==
  /\ Request
  /\ \E c \in ContentLens : \E calls \in ToolCallLists :
       LET done == Executed(calls)
           grown == (messages \o << Message("assistant", c) >>) \o ToolMessages(done)
           chars == total_chars + c + SumLen(ToolMessages(done))
       IN IF Len(done) < Len(calls)
          THEN /\ messages' = grown
               /\ total_chars' = chars
               /\ pruned' = "no"
               /\ relay_result' = "raised"
          ELSE IF chars > PRUNE_THRESHOLD
          THEN /\ messages' = PruneBySize(grown)
               /\ total_chars' = SumLen(messages')
               /\ pruned' = "size"
               /\ relay_result' = "running"
          ELSE /\ messages' = grown
               /\ total_chars' = chars
               /\ pruned' = "no"
               /\ relay_result' = "running"
  /\ UNCHANGED << estimate, matchvars, flagvars, toolvars, auditvars, max_turns >>

\* the request fails with a context-length error: the list is pruned and
\* the loop goes on, or the error text is returned when the list is short
RelayContextError ==
  /\ Request
  /\ IF Len(messages) > MIN_TO_PRUNE
     THEN /\ messages' = PruneOnError(messages)
          /\ total_chars' = SumLen(messages')
          /\ pruned' = "error"
          /\ relay_result' = "running"
     ELSE /\ pruned' = "no"
          /\ relay_result' = "error"
          /\ UNCHANGED << messages, total_chars >>
  /\ UNCHANGED << estimate, matchvars, flagvars, toolvars, auditvars, max_turns >>

\* the request fails with another exception: return f"Error: {str(e)}"
RelayError ==
  /\ Request
  /\ pruned' = "no"
  /\ relay_result' = "error"
  /\ UNCHANGED << estimate, matchvars, flagvars, toolvars, auditvars, max_turns, messages,
                  total_chars >>

\* the loop is left: "Analysis exceeded maximum number of turns. ..."
RelayExceeded ==
  /\ relay_result = "running"
  /\ turn_count >= max_turns
  /\ pruned' = "no"
  /\ relay_result' = "exceeded"
  /\ UNCHANGED << estimate, matchvars, flagvars, toolvars, auditvars, max_turns, turn_count,
                  messages, total_chars, requests >>

NextRelay ==
  \/ RelayFinal
  \/ RelayTools
  \/ RelayContextError
  \/ RelayError
  \/ RelayExceeded

SpecRelay == InitRelay /\ [][NextRelay]_vars

\* ------------------------------------------------------------ auditdatacore
\* auditdatacore.main imports the audit scripts one after the other through
\* run_script.  Importing a script runs it: it ends normally, raises an
\* Exception, or ends itself with sys.exit(1) as the scripts do when their
\* query fails or returns no records.

scripts == << "AccountAudit", "ContactAudit", "LeadAudit", "OpportunityAudit",
             "EventAudit" >>

ScriptOutcomes == {"ok", "raises", "exits"}

\* run_script: True, False from "except Exception", or the SystemExit of
\* the script leaves run_script
run_script(outcome) ==
  CASE outcome = "ok" -> "True"
    [] outcome = "raises" -> "False"
    [] outcome = "exits" -> "SystemExit"

InitAudit ==
  /\ NoEstimate
  /\ NoMatch
  /\ NoFlags
  /\ NoToolCall
  /\ NoRelay
  /\ script_outcome \in [1..Len(scripts) -> ScriptOutcomes]
  /\ attempted = << >>
  /\ summary = << >>
  /\ audit_state = "running"

\* one iteration of "for script in scripts"
RunScript ==
  /\ audit_state = "running"
  /\ Len(attempted) < Len(scripts)
  /\ LET i == Len(attempted) + 1
         success == run_script(script_outcome[i])
     IN /\ attempted' = Append(attempted, scripts[i])
        /\ IF success = "SystemExit"
           THEN /\ audit_state' = "exited"
                /\ summary' = summary
           ELSE /\ audit_state' = "running"
                /\ summary' = Append(summary, << scripts[i], success = "True" >>)
  /\ UNCHANGED << estimate, matchvars, flagvars, toolvars, relayvars,
                  script_outcome >>

\* the loop is over: the summary is printed
PrintSummary ==
  /\ audit_state = "running"
  /\ Len(attempted) = Len(scripts)
  /\ audit_state' = "done"
  /\ UNCHANGED << estimate, matchvars, flagvars, toolvars, relayvars,
                  script_outcome, attempted, summary >>

NextAudit ==
  \/ RunScript
  \/ PrintSummary

SpecAudit == InitAudit /\ [][NextAudit]_vars

\* ================================================================== claims
Done == pc = "done"

\* the run was paginated: its results come from one of the two strategies
Paginated == path \in {"cursor", "small"}

\* records examined to compute the returned results
Examined ==
  CASE Paginated       -> processed_records
    [] path = "single" -> fetched
    [] OTHER           -> 0

\* the store held exactly the counted population during the data queries
Unchanged == store = storeAtCount

\* exhaustive analysis requested and not downgraded to sampling
ExhaustiveRun == full_requested /\ total_record_count <= VERY_LARGE_DATASET

AllResults(P(_)) == \A k \in 1..Len(results) : P(results[k])

NotEstimated(r) == ~r.is_estimated
Estimated(r) == r.is_estimated

\* C1 as stated: every exhaustive run that is not downgraded examines exactly
\* total_records records and returns only results with is_estimated = false
\* (taken here for runs against an unchanged population only).
C1_AsStated ==
  (Done /\ ExhaustiveRun /\ Unchanged /\ results # << >>)
    => (Examined = total_record_count /\ AllResults(NotEstimated))

\* no page query of the strategy that produced the results failed
NoPageFailed == failed \cap {"cursor_next", "small"} = {}

\* C1 amended: an exhaustive run that is not downgraded, in which no page
\* query of the strategy producing the results failed and the store holds
\* exactly the counted population, examines exactly total_records records
\* (records_analyzed = total_records on the paginated paths) and returns only
\* results with is_estimated = false.
C1_ExhaustiveExact ==
  (Done /\ ExhaustiveRun /\ Unchanged /\ NoPageFailed /\ results # << >>)
    => /\ Examined = total_record_count
       /\ AllResults(NotEstimated)
       /\ Paginated =>
            \A k \in 1..Len(results) :
              results[k].records_analyzed = results[k].total_records

\* the first cursor query failed and every offset page was counted
C1_Witness ==
  /\ Done /\ ExhaustiveRun /\ Unchanged /\ NoPageFailed
  /\ path = "small" /\ batch_num > 2 /\ "cursor_first" \in failed
  /\ results # << >> /\ processed_records = total_record_count

\* C2 as stated: whenever a cursor page query fails, the first or a later
\* one, the results come from the offset-based small batches (taken here for
\* runs against an unchanged population only).
C2_AsStated ==
  (Done /\ Unchanged /\ failed \cap {"cursor_first", "cursor_next"} # {})
    => path = "small"

\* C2 amended: when the first cursor query fails the estimator abandons
\* cursor pagination and runs the offset-based small batches; when a later
\* page query fails the cursor loop stops and the counts of the pages before
\* the failure are returned, with records_analyzed < total_records and
\* is_estimated = true.
C2_CursorFailure ==
  /\ "cursor_first" \in failed => (pc = "small" \/ (Done /\ path = "small"))
  /\ "cursor_next" \in failed =>
       /\ Done /\ path = "cursor"
       /\ processed_records > 0
       /\ processed_records < total_record_count
       /\ \A k \in 1..Len(results) :
            /\ results[k].is_estimated
            /\ results[k].records_analyzed = processed_records

\* the query for the third cursor page failed
C2_Witness ==
  /\ Done /\ "cursor_next" \in failed /\ batch_num = 2
  /\ path = "cursor" /\ processed_records = 2 * actual_batch_size

\* the cursor query and every offset query of the run failed
BothStrategiesFailed ==
  /\ Done /\ Unchanged /\ "cursor_first" \in failed
  /\ queries.data > 1 /\ failures = queries.data

Sampled(r) == r.is_estimated /\ "sample_size" \in r.keys

\* C3: when the cursor pagination and every offset page query fail, the
\* returned results are sampled ones (is_estimated = true, with sample_size),
\* not results computed from zero examined records.
C3_SamplingFallback ==
  BothStrategiesFailed => (path # "small" /\ AllResults(Sampled))

\* the run is in, or returned from, one of the pagination strategies
InPagination == pc \in {"cursor", "cursor_loop", "small"} \/ Paginated

WholePopulation == Examined = store

\* C5: after a failed external call every returned result is computed over
\* the whole population or carries is_estimated = true (taken for runs
\* against an unchanged population).
C5_NoSilentlyWrongResult ==
  (Done /\ Unchanged /\ failed # {})
    => \A k \in 1..Len(results) : results[k].is_estimated \/ WholePopulation

\* C6: every result of either pagination strategy has is_estimated = true
\* exactly when fewer records were analysed than total_records, and
\* records_analyzed is the number of records in the pages counted.
C6_EstimatedIffPartial ==
  (Done /\ Paginated) =>
    /\ Len(results) = Len(valid_fields)
    /\ \A k \in 1..Len(results) :
         /\ results[k].records_analyzed = processed_records
         /\ results[k].total_records = total_record_count
         /\ results[k].is_estimated <=>
              (results[k].records_analyzed < results[k].total_records)

\* small batches with a failed page and an empty page, marked estimated
C6_Witness ==
  /\ Done /\ path = "small" /\ "small" \in failed /\ emptyPage
  /\ processed_records > 0 /\ AllResults(Estimated)

\* C7: with a population of 0 the estimator returns, for every requested
\* attribute, one result with usage 0 and non-empty count 0, and issues no
\* schema or data query after the count query.
C7_EmptyPopulation ==
  (pc # "start" /\ total_record_count = 0) =>
    /\ Done
    /\ queries = [count |-> 1, schema |-> 0, data |-> 0]
    /\ Len(results) = Len(field_names)
    /\ \A k \in 1..Len(results) :
         /\ results[k].field = field_names[k]
         /\ results[k].total_records = 0
         /\ results[k].usage_pct = 0
         /\ results[k].non_null_records = 0

\* an empty store, counted successfully, three attributes requested
C7_Witness ==
  /\ Done /\ storeAtCount = 0 /\ failed = {} /\ path = "zero"
  /\ Len(field_names) = 3 /\ Len(results) = 3

\* the Id of the last record counted by the cursor loop, 0 before any
Cursor == IF PageLen(counted) = 0 THEN 0 ELSE counted[2]

\* C8: in cursor pagination every page after the first starts right after
\* the last Id of the page before it, so the cursor strictly increases, and
\* the records counted are exactly those with Ids up to the cursor, each
\* once: no record is counted in two pages and none below the cursor is
\* skipped.
C8_CursorOrder ==
  /\ [][(pc = "cursor_loop" /\ pc' = "cursor_loop") =>
          /\ counted' = records
          /\ records'[1] > records[2]
          /\ records'[1] = records[2] + 1
          /\ PageLen(records') > 0 => records'[2] > records[2]]_vars
  /\ []((pc = "cursor_loop" \/ path = "cursor") =>
          /\ Cursor <= store
          /\ processed_records = Cursor
          /\ \A k \in 1..Len(valid_fields) :
               field_counts[valid_fields[k]]
                 = PrefixCount(pattern, valid_fields[k], Cursor))

\* a cursor run of at least three pages over the whole store
C8_Witness ==
  /\ Done /\ path = "cursor" /\ batch_num >= 3 /\ Unchanged
  /\ processed_records = store /\ failed = {}

\* C9: in the offset-based fallback a page whose query fails adds nothing
\* to the counters or to the processed-record count and the loop goes on
\* with the next offset; unless a page comes back empty, every one of the
\* num_batches pages is queried and every page that did not fail is counted.
C9_FailedPageSkipped ==
  /\ [][(pc = "small" /\ failures' = failures + 1) =>
          /\ field_counts' = field_counts
          /\ processed_records' = processed_records
          /\ IF batch_num < num_batches
             THEN pc' = "small" /\ batch_num' = batch_num + 1
             ELSE pc' = "done" /\ path' = "small"]_vars
  /\ []((Done /\ path = "small" /\ ~emptyPage) =>
          /\ queries.data = 1 + num_batches
          /\ processed_records
               >= Min(store, num_batches * SMALL_BATCH_SIZE)
                    - (failures - 1) * SMALL_BATCH_SIZE)

\* one offset page other than the last failed; the last page was counted
C9_Witness ==
  /\ Done /\ path = "small" /\ failures = 2 /\ Unchanged
  /\ counted[2] = store /\ processed_records = store - SMALL_BATCH_SIZE

\* the condition under which C10 expects pagination
PaginationExpected ==
  /\ full_requested
  /\ batch_size < total_record_count
  /\ total_record_count <= VERY_LARGE_DATASET

\* C10 as stated: pagination exactly when exhaustive analysis is requested
\* and batch_size < population <= 50,000; otherwise, with population > 0 and
\* a valid attribute, exactly one data query, fetching at most
\* min(batch_size, population) records.
C10_AsStated ==
  (Done /\ total_record_count > 0 /\ valid_fields # << >>) =>
    IF PaginationExpected
    THEN Paginated
    ELSE /\ ~Paginated
         /\ queries.data = 1
         /\ fetched <= Min(batch_size, total_record_count)

\* C10 amended: pagination exactly when exhaustive analysis is requested and
\* batch_size < population <= 50,000; otherwise, with population > 0 and a
\* valid attribute, exactly one data query: with population > batch_size it
\* carries LIMIT batch_size, and with population <= batch_size it carries no
\* LIMIT and fetches every record of the store, which is at most
\* min(batch_size, population) records when the store has not grown since
\* the count.
C10_ModeChoice ==
  (pc \notin {"start", "validate"} /\ total_record_count > 0
     /\ valid_fields # << >>) =>
    /\ InPagination <=> PaginationExpected
    /\ (Done /\ ~PaginationExpected) =>
         /\ queries.data = 1
         /\ IF total_record_count > batch_size
            THEN HasLimit /\ fetched <= batch_size
            ELSE ~HasLimit /\ (path = "single" => fetched = store)
         /\ store <= total_record_count
              => fetched <= Min(batch_size, total_record_count)

\* sampling: more records than batch_size, exhaustive analysis not requested
C10_Witness ==
  /\ Done /\ path = "single" /\ ~full_requested /\ Unchanged
  /\ total_record_count > batch_size /\ fetched = batch_size
  /\ results # << >>

\* ------------------------------------------------ claims on analyze_fields
\* number of records with Ids in 1..n whose value of field f passes Test
CountBy(Test(_), pat, f, n) ==
  LET P    == Len(pat)
      hit(k) == IF Test(FieldValue(RecordAt(pat, k), f)) THEN 1 ELSE 0
      full == Cardinality({k \in 1..P : hit(k) = 1})
      part == Cardinality({k \in 1..(n % P) : hit(k) = 1})
  IN (n \div P) * full + part

\* the entries of field_log whose call returned a dictionary, in the order
\* of the returned list
Returned(entry) == entry.outcome \in {"zero", "count", "sample"}
ReturnedLog == SelectSeq(field_log, Returned)

\* result k was computed from a sampling query
FromSample(k) ==
  \/ path = "single" /\ use_sampling
  \/ path = "fields" /\ ReturnedLog[k].outcome = "sample"

\* C11: every result of a sampled run has is_estimated = true and a
\* sample_size with 0 <= sample_size <= min(batch_size, total_records)
\* (taken here for runs without a failed call against an unchanged
\* population only).
C11_SampleBound ==
  (Done /\ Unchanged /\ failed = {}) =>
    \A k \in 1..Len(results) :
      FromSample(k) =>
        /\ Sampled(results[k])
        /\ 0 <= results[k].sample_size
        /\ results[k].sample_size <= Min(batch_size, total_record_count)

\* the count query gave the number of records the data queries met
PopulationIsStore == total_record_count = store /\ pc \notin {"start", "analyze"}

\* C12: when the population size is the store's record count, every result,
\* whichever path produced it and whichever calls failed, has
\* 0 <= usage_pct <= 100 and 0 <= non_null_records <= total_records.
C12_Bounds ==
  PopulationIsStore =>
    \A k \in 1..Len(results) :
      /\ 0 <= results[k].usage_pct
      /\ results[k].usage_pct <= 10000
      /\ 0 <= results[k].non_null_records
      /\ results[k].non_null_records <= results[k].total_records

\* the per-attribute loop after a failed call, every record non-null: a
\* counted result and a sampled one at 100% of a population of 50,000
C12_Witness ==
  /\ Done /\ PopulationIsStore /\ path = "fields" /\ failed # {}
  /\ total_record_count = VERY_LARGE_DATASET /\ Len(results) = 2
  /\ \A k \in 1..2 :
       /\ results[k].usage_pct = 10000
       /\ results[k].non_null_records = total_record_count
  /\ ~results[1].is_estimated /\ results[2].sample_size = DEFAULT_SAMPLE_SIZE

\* non_null_count behind result k of the single query or of get_field_usage
RawCount(k) ==
  IF path = "fields" THEN ReturnedLog[k].non_null
  ELSE PageCount(pattern, results[k].field, << 1, fetched >>)

\* the number the code divided RawCount(k) by: len(df), or sample_size in
\* get_field_usage
Divisor(k) == IF path = "fields" THEN results[k].sample_size ELSE fetched

\* the exact product fraction * population of result k is a whole number
WholeProduct(k) == (RawCount(k) * results[k].total_records) % Divisor(k) = 0

\* C13 as stated: in every sampled result non_null_records is the sample
\* fraction scaled to the population and rounded to the nearest integer,
\* round(usage_pct / 100 * population), from the exact fraction or from the
\* reported usage_pct (taken here for results whose exact product is not a
\* whole number).
C13_AsStated ==
  Done =>
    \A k \in 1..Len(results) :
      (FromSample(k) /\ ~WholeProduct(k)) =>
        LET est == results[k].non_null_records
            total == results[k].total_records
            d1 == 2 * (est * Divisor(k) - RawCount(k) * total)
            d2 == 2 * (est * 10000 - results[k].usage_pct * total)
        IN \/ (0 - Divisor(k)) <= d1 /\ d1 <= Divisor(k)
           \/ (0 - 10000) <= d2 /\ d2 <= 10000

\* C13 amended: in every sampled result non_null_records is
\* int(usage_pct / 100 * population) with the unrounded usage_pct: the
\* sample fraction scaled to the population and truncated, never rounded
\* up; it is the largest integer not above the exact product, or one less
\* when the exact product is a whole number that the float product falls
\* just below.
C13_Truncated ==
  Done =>
    \A k \in 1..Len(results) :
      FromSample(k) =>
        LET est == results[k].non_null_records
            product == RawCount(k) * results[k].total_records
        IN /\ 0 <= est
           /\ est * Divisor(k) <= product
           /\ product - Divisor(k) <= est * Divisor(k)
           /\ ~WholeProduct(k) => product - Divisor(k) < est * Divisor(k)

\* a sample of 1000 of 1200 records whose product has a fraction of at
\* least one half, reported truncated
C13_Witness ==
  /\ Done /\ path = "single" /\ use_sampling /\ fetched = 1000
  /\ total_record_count = 1200
  /\ \E k \in 1..Len(results) :
       /\ 2 * ((RawCount(k) * 1200) % 1000) >= 1000
       /\ results[k].non_null_records = (RawCount(k) * 1200) \div 1000

\* records returned by the sampling query behind result k
ExaminedBy(k) == IF path = "fields" THEN ReturnedLog[k].examined ELSE fetched

\* C14: in every sampled result usage_pct is 100 * non-empty count / number
\* of records actually fetched and examined, and sample_size is that number
\* of examined records, also when the query returns fewer rows than the
\* requested limit (taken here for runs without a failed call).
C14_HonestSample ==
  (Done /\ failed = {}) =>
    \A k \in 1..Len(results) :
      FromSample(k) =>
        /\ results[k].usage_pct = UsagePct(RawCount(k), ExaminedBy(k))
        /\ results[k].sample_size = ExaminedBy(k)

\* the value is present and, for a compound value, some sub-component is
\* not None; a scalar is taken as present whenever it is not None
HoldsValue(v) ==
  \/ v.kind = "scalar"
  \/ v.kind = "dict" /\ \E c \in 1..Len(v.comps) : v.comps[c] # "None"

\* C15: an exhaustive run with no failed call over an unchanged population,
\* by single query or by pagination, returns for every attribute
\* non_null_records = the number of records of the store whose value for
\* the attribute is non-empty, usage_pct = 100 * non_null_records /
\* population and is_estimated = false.
C15_ExactCounts ==
  (Done /\ ExhaustiveRun /\ Unchanged /\ failed = {}
     /\ path \in {"single", "cursor", "small"}) =>
    \A k \in 1..Len(results) :
      LET non_empty == CountBy(HoldsValue, pattern, results[k].field, store)
      IN /\ results[k].non_null_records = non_empty
         /\ results[k].usage_pct = UsagePct(non_empty, total_record_count)
         /\ ~results[k].is_estimated

\* the attribute of result k under the schema's spelling, and its type
Attribute(k) == StoreName(results[k].field)
\* result k was computed from records of the store
Computed(k) ==
  \/ path \in {"single", "cursor", "small"}
  \/ path = "fields" /\ ReturnedLog[k].outcome \in {"count", "sample"}

ScalarResult(k) ==
  Computed(k) /\ TypeOf(Attribute(k)) \notin {"address", "location"}

\* the pages behind the results are the records with Ids 1..ExaminedIds(k)
ExaminedIds(k) ==
  CASE Paginated       -> processed_records
    [] path = "single" -> fetched
    [] path = "fields" -> ReturnedLog[k].examined
    [] OTHER           -> 0

\* result k reports that Test holds of n of the records examined for it:
\* as the count itself, or through usage_pct when the result is sampled
Reports(k, n) ==
  IF FromSample(k)
  THEN results[k].usage_pct = UsagePct(n, Divisor(k))
  ELSE results[k].non_null_records = n

IsNotNone(v) == v.kind # "none"
NonEmptyScalar(v) == v.kind # "none" /\ v.val # ""

\* C16 as stated: for a scalar attribute a record counts as non-empty only
\* if its value is present, not null and not the empty string, on every
\* estimator path.
C16_AsStated ==
  (Done /\ NoPageFailed) =>
    \A k \in 1..Len(results) :
      ScalarResult(k) =>
        Reports(k, CountBy(NonEmptyScalar, pattern, Attribute(k), ExaminedIds(k)))

\* C16 amended: for a scalar attribute a record counts as non-empty exactly
\* when its value is not null, on every estimator path; a record whose
\* value is the empty string is counted.
C16_NotNullCounts ==
  (Done /\ NoPageFailed) =>
    \A k \in 1..Len(results) :
      ScalarResult(k) =>
        Reports(k, CountBy(IsNotNone, pattern, Attribute(k), ExaminedIds(k)))

\* the per-attribute loop over three records, one with the empty string:
\* the COUNT query failed and the sample counted two of the three
C16_Witness ==
  /\ Done /\ path = "fields" /\ store = 3 /\ Unchanged
  /\ FieldValue(RecordAt(pattern, 3), "Website") = PyEmpty
  /\ FieldValue(RecordAt(pattern, 2), "Website") = PyNone
  /\ "field_count" \in failed
  /\ \E k \in 1..Len(results) :
       /\ ScalarResult(k) /\ FromSample(k)
       /\ ReturnedLog[k].non_null = 2
       /\ results[k].usage_pct = 6667

CompoundResult(k) ==
  Computed(k) /\ TypeOf(Attribute(k)) \in {"address", "location"}

\* a compound value with at least one sub-component that is not None
SomeComponentNotNone(v) ==
  v.kind = "dict" /\ \E c \in 1..Len(v.comps) : v.comps[c] # "None"

\* C17: for a compound attribute (address or location type) a record counts
\* as non-empty if and only if at least one of its sub-components is not
\* null; a compound value whose sub-components are all null, or a null
\* compound value, is not counted (taken here for runs without a failed
\* call against an unchanged population).
C17_AnyComponent ==
  (Done /\ Unchanged /\ failed = {}) =>
    \A k \in 1..Len(results) :
      CompoundResult(k) =>
        Reports(k, CountBy(SomeComponentNotNone, pattern, Attribute(k),
                           ExaminedIds(k)))

\* requested name j and schema field i are the same name, case ignored
SameName(j, i) == Lower(field_names[j]) = Lower(Schema[i].name)

\* the run got its count, its schema and records to count
Analysed ==
  /\ Done /\ total_record_count > 0
  /\ failed \cap {"count", "schema", "single"} = {}
  /\ path = "single" => fetched > 0

\* C18: with a population above 0, a requested attribute that is not in the
\* schema (names compared case-insensitively) is dropped and does not appear
\* in the output, and every other requested attribute gets one result under
\* the schema's spelling: a nonexistent attribute does not empty the batch.
C18_NonexistentDropped ==
  Analysed =>
    /\ \A j \in 1..Len(field_names) : \A i \in 1..Len(Schema) :
         SameName(j, i) =>
           Cardinality({k \in 1..Len(results) :
                          results[k].field = Schema[i].name}) = 1
    /\ \A k \in 1..Len(results) :
         /\ results[k].field \in SchemaNames
         /\ \E j \in 1..Len(field_names) :
              Lower(field_names[j]) = Lower(results[k].field)
    /\ \A j \in 1..Len(field_names) :
         (\A i \in 1..Len(Schema) : ~SameName(j, i)) =>
           \A k \in 1..Len(results) : results[k].field # field_names[j]

\* "website", "Bogus" and "Geo__c" requested: results for Website and Geo__c
C18_Witness ==
  /\ Analysed /\ failed = {}
  /\ field_names = << "website", "Bogus", "Geo__c" >>
  /\ Len(results) = 2
  /\ results[1].field = "Website" /\ results[2].field = "Geo__c"

\* the calls that query the usage of attributes
UsageQueries ==
  {"single", "cursor_first", "cursor_next", "small", "field_count", "field_sample"}

\* C19: when the usage query for one attribute fails, only that attribute
\* is omitted and every other valid requested attribute still gets a
\* result: a run with a population above 0 in which exactly one call
\* failed, a usage query, returns results for all valid requested
\* attributes but at most one (taken here for an unchanged population).
C19_FailureIsolated ==
  (Done /\ Unchanged /\ total_record_count > 0
     /\ failures = 1 /\ failed \subseteq UsageQueries) =>
    Len(results) >= Len(validate_fields_on_object(field_names)) - 1

\* a schema lookup of the run failed
LookupFailed == failed \cap {"schema", "field_schema"} # {}

\* C20 as stated, without its last part: when the schema lookup fails with
\* a population above 0, the estimator returns no result for any attribute
\* and issues no data query afterwards (taken here for runs in which no
\* other call fails, against an unchanged population).
C20_AsStated ==
  (Done /\ Unchanged /\ total_record_count > 0 /\ LookupFailed /\ failures = 1) =>
    /\ results = << >>
    /\ \A i \in 1..Len(field_log) : \A j \in 1..Len(field_log) :
         (i < j /\ field_log[i].outcome = "no_metadata")
           => field_log[j].data_queries = 0
    /\ path # "fields" => queries.data = 0

\* C20 amended: when the schema lookup of get_field_usage_batch fails, the
\* function returns the empty list through the return statement it also
\* takes when no requested attribute is valid, and no data query is issued;
\* in the per-attribute loop every attribute has its own lookup, and an
\* attribute whose lookup fails gets no data query and no result while the
\* other attributes are still analysed.
C20_SchemaFailure ==
  /\ "schema" \in failed =>
       /\ Done /\ path = "none"
       /\ results = << >> /\ valid_fields = << >>
       /\ queries.data = 0
  /\ \A j \in 1..Len(field_log) :
       field_log[j].outcome = "no_metadata" =>
         /\ field_log[j].data_queries = 0
         /\ \A k \in 1..Len(results) : results[k].field # field_names[j]
  /\ (Done /\ path = "fields") => Len(results) = Len(ReturnedLog)

\* the per-attribute loop: the lookup for the first attribute failed, the
\* second attribute was analysed with a data query
C20_Witness ==
  /\ Done /\ path = "fields" /\ total_record_count > 0
  /\ Len(field_log) = 2
  /\ field_log[1].outcome = "no_metadata"
  /\ field_log[2].outcome = "sample"
  /\ Len(results) = 1 /\ results[1].field = field_names[2]
  /\ queries = [count |-> 1, schema |-> 2, data |-> 1]

\* ------------------------------------------------ claims on two calls
\* the second of two calls has returned
SecondDone == run = 2 /\ pc = "done"

Ceil(a, b) == (a + b - 1) \div b

\* page queries issued so far by process_with_cursor_pagination
CursorQueries == IF pc = "cursor_loop" \/ path = "cursor" THEN queries.data ELSE 0

\* page queries issued so far by process_with_small_batches, which runs
\* after the first cursor query failed
OffsetQueries == IF pc = "small" \/ path = "small" THEN queries.data - 1 ELSE 0

PageQueriesBounded ==
  /\ CursorQueries <= Ceil(total_record_count, Min(batch_size, CURSOR_BATCH_CAP))
  /\ OffsetQueries <= Ceil(total_record_count, SMALL_BATCH_SIZE)

\* an iteration of the cursor loop that counts a page or goes on to another
\* iteration
CursorIteration ==
  /\ pc = "cursor_loop"
  /\ PageLen(records) > 0 \/ pc' = "cursor_loop"

MatchEnded == matched \in {"True", "False", "raised"}

\* C22: fuzzy_match(term, term, threshold) is True for every term and every
\* threshold <= 1.0, and fuzzy_match(term, "", threshold) is False for every
\* non-empty term and every threshold > 0
C22_SelfAndEmpty ==
  (MatchEnded /\ text.kind = "str") =>
     /\ (text.chars = search_term /\ threshold <= 100) => matched = "True"
     /\ (text.chars = << >> /\ search_term # << >> /\ threshold > 0)
           => matched = "False"

\* a non-empty term was matched against itself with threshold 1.0
C22_Witness ==
  /\ MatchEnded
  /\ text = StrText(search_term)
  /\ search_term # << >>
  /\ threshold = 100
  /\ matched = "True"

\* C23: in every module that defines it, fuzzy_match called with a None
\* text returns False rather than failing, and otherwise returns True
\* exactly when the text contains the term case-insensitively or the
\* case-insensitive similarity ratio is at least the threshold
C23_NullSafe ==
  MatchEnded =>
     IF text.kind = "none"
     THEN matched = "False"
     ELSE /\ matched \in {"True", "False"}
          /\ matched = "True" <=>
               \/ Contains(str_lower(search_term), str_lower(text.chars))
               \/ RatioAtLeast(str_lower(search_term), str_lower(text.chars),
                               threshold)
\* ----------------------------------------------- claims on presence flags
FlagsReported == flag_pc = "done"

\* the search behind the flag of object o was carried out: the items were
\* retrieved and every one of them was compared with the keywords
SearchCarriedOut(o) ==
  CASE env.kind = "fields" -> env.describe[o]
    [] env.kind = "flows" ->
         search_flows_multi_terms(search_terms, env, scanned,
                                  DEFAULT_SIMILARITY_THRESHOLD).scanned
    [] env.kind = "mta" ->
         IF ~env.script \/ ~env.sfdx
         THEN env.fallback = "names"
         ELSE /\ env.connection
              /\ env.api # "unavailable"
              /\ env.api = "raises" => env.cli
              /\ ~ScanRaises(search_terms, scanned, DEFAULT_SIMILARITY_THRESHOLD)

\* a scanned item matches the keyword, by the matcher of the search that
\* was carried out
SomeItemMatches(term) ==
  \E i \in 1..Len(scanned) :
     CASE env.kind = "fields" ->
            FieldMatches(term, scanned[i], DEFAULT_SIMILARITY_THRESHOLD)
       [] env.kind = "mta" /\ (~env.script \/ ~env.sfdx) ->
            /\ scanned[i].kind = "str"
            /\ Contains(str_lower(term), str_lower(scanned[i].chars))
       [] OTHER -> FlowMatches(term, scanned[i], DEFAULT_SIMILARITY_THRESHOLD)

\* C24: a presence flag reported for a keyword is true if and only if at
\* least one scanned item matched that keyword; when the search could not
\* be carried out or found nothing, the flag is false
C24_FlagIffMatch ==
  FlagsReported =>
     \A key \in DOMAIN flags :
        flags[key] <=> (SearchCarriedOut(key[2]) /\ SomeItemMatches(search_terms[key[1]]))
\* ------------------------------------------- claims on execute_tool_call
ToolCallEnded == tool_result.outcome \in {"returned", "raised"}

\* the function was called and returned a value
FunctionReturned ==
  /\ tool_arguments = "object"
  /\ tool_known
  /\ tool_function.kind \in {"list", "dict", "str", "other", "none"}

\* C26: every string execute_tool_call returns as a tool result has at most
\* MAX_RESPONSE_SIZE characters, whatever the type of the function's
\* result, and carries a truncation marker whenever the result was shortened
C26_Bounded ==
  (ToolCallEnded /\ FunctionReturned) =>
     /\ tool_result.outcome = "returned"
     /\ tool_result.len <= MAX_RESPONSE_SIZE
     /\ tool_result.shortened => tool_result.marker

\* C30: execute_tool_call never raises; arguments that are not valid JSON
\* and an unknown function name give an error string without any function
\* being invoked; whatever the called function throws gives an error
\* string; a function that returns None gives a non-empty placeholder
C30_NeverRaises ==
  ToolCallEnded =>
     /\ tool_result.outcome = "returned"
     /\ (tool_arguments = "invalid_json" \/ ~tool_known) =>
           tool_result.error /\ ~tool_result.invoked
     /\ (tool_arguments = "object" /\ tool_known
           /\ tool_function.kind \in {"raises", "exits"}) => tool_result.error
     /\ (tool_arguments = "object" /\ tool_known /\ tool_function.kind = "none")
           => (~tool_result.error /\ tool_result.len > 0)
\* ---------------------------------------------------- claims on the relay
RelayEnded == relay_result \notin {"idle", "running"}

\* C25: the relay makes at most max_turns requests to the chat API in one
\* conversation, retries after pruning included, and ends by returning a
\* string: the final text, an error text, or the exceeded-maximum-turns
\* message
C25_BoundedAndReturns ==
  /\ requests <= max_turns
  /\ RelayEnded => relay_result \in {"final", "error", "exceeded"}

CountRole(msgs, role) == Cardinality({k \in 1..Len(msgs) : msgs[k].role = role})

\* C28: after any pruning step the message list begins with the system
\* message followed by the user message, each of the two appears exactly
\* once, and the list holds at most 10 messages
C28_PrunedShape ==
  pruned # "no" =>
     /\ messages[1].role = "system"
     /\ messages[2].role = "user"
     /\ CountRole(messages, "system") = 1
     /\ CountRole(messages, "user") = 1
     /\ Len(messages) <= RECENT_WINDOW
\* --------------------------------------------------- claims on auditdatacore
AuditEnded == audit_state \in {"done", "exited"}

\* C27: main attempts every script of the fixed list exactly once and in
\* that order; a script that fails, including one that ends itself with a
\* non-zero exit, is recorded as failed and does not prevent the later
\* scripts from running; the summary holds one entry per script
C27_AllAttempted ==
  /\ \A i \in 1..Len(attempted) : attempted[i] = scripts[i]
  /\ AuditEnded =>
       /\ attempted = scripts
       /\ Len(summary) = Len(scripts)
       /\ \A i \in 1..Len(scripts) :
            summary[i] = << scripts[i], script_outcome[i] = "ok" >>
====
